---- MODULE Spec2Model ----
(***************************************************************************)
(* Model of the Chenda scoring and ranking pipeline (chenda-algo).         *)
(*                                                                         *)
(* Numbers.  Every JavaScript number is represented by an integer that     *)
(* counts thousandths: the score 82.14 is 82140 and the distance 12.5 km   *)
(* is 12500.  Weights alone count hundredths (the weight 50 is 5000), so   *)
(* that weight * score stays within TLC's 32-bit integers.  Quotients are  *)
(* kept as exact rationals until they are rounded by toFixed, which        *)
(* rounds half away from zero.                                             *)
(* The two non-numeric values the code tests for are the integers          *)
(* UNDEFINED (typeof x !== 'number') and NAN (isNaN(x)).                   *)
(*                                                                         *)
(* State.  The program is a library of synchronous functions; the state    *)
(* is the record of the call in hand: the function called (fn), its        *)
(* arguments (args) and what it returned or threw (ret).  Every function   *)
(* is pure, so a behaviour is one call from the idle state, followed where *)
(* a property relates two calls by a second call on the first one's        *)
(* result.                                                                 *)
(***************************************************************************)
EXTENDS Integers, Sequences, FiniteSets, TLC

VARIABLES fn, args, ret

vars == <<fn, args, ret>>

-----------------------------------------------------------------------------
(* JavaScript values *)

UNDEFINED == 0 - 999999

NAN == 0 - 999998

NULL == 0 - 999997

IsNumber(x) == x # UNDEFINED /\ x # NULL

(* !x for a number, null or undefined *)
IsFalsy(x) == x \in {0, UNDEFINED, NULL, NAN}

IsNaN(x) == x = NAN

Num(k) == k * 1000

Wt(k) == k * 100

Min(a, b) == IF a <= b THEN a ELSE b

Max(a, b) == IF a >= b THEN a ELSE b

Abs(x) == IF x < 0 THEN 0 - x ELSE x

RECURSIVE Pow10(_)
Pow10(n) == IF n <= 0 THEN 1 ELSE 10 * Pow10(n - 1)

(* The first k decimal digits of r/den (0 <= r < den), as an integer, and   *)
(* the remainder left after them: long division, one digit at a time.      *)
RECURSIVE Digits(_, _, _)
Digits(r, den, k) ==
    IF k <= 0 THEN <<0, r>>
    ELSE LET prev == Digits(r, den, k - 1)
             rr   == prev[2] * 10
         IN  <<prev[1] * 10 + (rr \div den), rr % den>>

(* Number((num/den).toFixed(decimals)) in thousandths, for den > 0 and     *)
(* decimals in 0..3: the multiple of 10^-decimals nearest to num/den, the  *)
(* larger in magnitude of two equally near ones.                           *)
ToFixed(num, den, decimals) ==
    LET n    == Abs(num)
        D    == Digits(n % den, den, decimals)
        q    == (n \div den) * Pow10(decimals) + D[1]
                  + (IF 2 * D[2] >= den THEN 1 ELSE 0)
        v    == q * Pow10(3 - decimals)
    IN  IF num < 0 THEN 0 - v ELSE v

Ok(v) == [threw |-> FALSE, msg |-> "", value |-> v]

Throw(m) == [threw |-> TRUE, msg |-> m, value |-> 0]

-----------------------------------------------------------------------------
(* score_normalizer.js *)

(* normalizeProximityScore without the clamp at the radius. *)
normalizeProximityScore_noClamp(distance_km, max_radius_km, decimals) ==
    IF ~IsNumber(distance_km) \/ ~IsNumber(max_radius_km)
         \/ IsNaN(distance_km) \/ IsNaN(max_radius_km)
         \/ distance_km < 0 \/ max_radius_km <= 0
      THEN Throw("invalid")
    ELSE Ok(ToFixed(100 * (max_radius_km - distance_km), max_radius_km, decimals))

(* normalizeProximityScore with score = 100 * (distance / max_radius). *)
normalizeProximityScore_notInverse(distance_km, max_radius_km, decimals) ==
    IF ~IsNumber(distance_km) \/ ~IsNumber(max_radius_km)
         \/ IsNaN(distance_km) \/ IsNaN(max_radius_km)
         \/ distance_km < 0 \/ max_radius_km <= 0
      THEN Throw("invalid")
    ELSE IF distance_km >= max_radius_km
      THEN Ok(0)
    ELSE Ok(ToFixed(100 * distance_km, max_radius_km, decimals))

normalizeProximityScore(distance_km, max_radius_km, decimals) ==
    IF ~IsNumber(distance_km) \/ ~IsNumber(max_radius_km)
      THEN Throw("distance_km and max_radius_km must be numbers")
    ELSE IF IsNaN(distance_km) \/ IsNaN(max_radius_km)
      THEN Throw("distance_km and max_radius_km cannot be NaN")
    ELSE IF distance_km < 0
      THEN Throw("distance_km cannot be negative")
    ELSE IF max_radius_km <= 0
      THEN Throw("max_radius_km must be positive")
    ELSE IF distance_km >= max_radius_km
      THEN Ok(0)
    ELSE Ok(ToFixed(100 * (max_radius_km - distance_km), max_radius_km, decimals))

(* normalizeFreshnessScore cutting the extra decimals off instead of rounding. *)
normalizeFreshnessScore_truncate(freshness_percent, decimals) ==
    IF ~IsNumber(freshness_percent) \/ IsNaN(freshness_percent)
         \/ freshness_percent < 0 \/ freshness_percent > Num(100)
      THEN Throw("invalid")
    ELSE Ok((freshness_percent \div Pow10(3 - decimals)) * Pow10(3 - decimals))

normalizeFreshnessScore(freshness_percent, decimals) ==
    IF ~IsNumber(freshness_percent)
      THEN Throw("freshness_percent must be a number")
    ELSE IF IsNaN(freshness_percent)
      THEN Throw("freshness_percent cannot be NaN")
    ELSE IF freshness_percent < 0 \/ freshness_percent > Num(100)
      THEN Throw("freshness_percent must be between 0-100")
    ELSE Ok(ToFixed(freshness_percent, 1000, decimals))

-----------------------------------------------------------------------------
(* combined_score_calculator.js *)

(* validateScore without the range check *)
validateScore_anyNumber(score) ==
    IF ~IsNumber(score) THEN "must be a number"
    ELSE IF IsNaN(score) THEN "cannot be NaN"
    ELSE ""

validateScore(score) ==
    IF ~IsNumber(score) THEN "must be a number"
    ELSE IF IsNaN(score) THEN "cannot be NaN"
    ELSE IF score < 0 \/ score > Num(100) THEN "must be between 0-100"
    ELSE ""

validateWeight(weight) ==
    IF ~IsNumber(weight) THEN "must be a number"
    ELSE IF IsNaN(weight) THEN "cannot be NaN"
    ELSE IF weight < 0 \/ weight > Wt(100) THEN "must be between 0-100"
    ELSE ""

(* calculateCombinedScore applying proximity_weight to both scores. *)
calculateCombinedScore_oneWeight(proximity_score, freshness_score, proximity_weight, freshness_weight, strict, decimals) ==
    IF validateScore(proximity_score) # "" \/ validateScore(freshness_score) # ""
         \/ validateWeight(proximity_weight) # ""
         \/ validateWeight(freshness_weight) # ""
         \/ (strict /\ proximity_weight + freshness_weight # Wt(100))
      THEN Throw("invalid")
    ELSE Ok(ToFixed(proximity_weight * proximity_score
                      + proximity_weight * freshness_score,
                    100 * 100 * 1000, decimals))

(* calculateCombinedScore with the two weights exchanged. *)
calculateCombinedScore_swapped(proximity_score, freshness_score, proximity_weight, freshness_weight, strict, decimals) ==
    IF validateScore(proximity_score) # "" \/ validateScore(freshness_score) # ""
         \/ validateWeight(proximity_weight) # ""
         \/ validateWeight(freshness_weight) # ""
         \/ (strict /\ proximity_weight + freshness_weight # Wt(100))
      THEN Throw("invalid")
    ELSE Ok(ToFixed(freshness_weight * proximity_score
                      + proximity_weight * freshness_score,
                    100 * 100 * 1000, decimals))

(* calculateCombinedScore rejecting only weights that sum to more than 100. *)
calculateCombinedScore_sumAtMost(proximity_score, freshness_score, proximity_weight, freshness_weight, strict, decimals) ==
    IF validateScore(proximity_score) # "" \/ validateScore(freshness_score) # ""
         \/ validateWeight(proximity_weight) # ""
         \/ validateWeight(freshness_weight) # ""
      THEN Throw("invalid")
    ELSE IF strict /\ proximity_weight + freshness_weight > Wt(100)
      THEN Throw("Weights must sum to 100 in strict mode")
    ELSE Ok(ToFixed(proximity_weight * proximity_score
                      + freshness_weight * freshness_score,
                    100 * 100 * 1000, decimals))

calculateCombinedScore(proximity_score, freshness_score, proximity_weight, freshness_weight, strict, decimals) ==
    IF validateScore(proximity_score) # ""
      THEN Throw("proximity_score " \o validateScore(proximity_score))
    ELSE IF validateScore(freshness_score) # ""
      THEN Throw("freshness_score " \o validateScore(freshness_score))
    ELSE IF validateWeight(proximity_weight) # ""
      THEN Throw("proximity_weight " \o validateWeight(proximity_weight))
    ELSE IF validateWeight(freshness_weight) # ""
      THEN Throw("freshness_weight " \o validateWeight(freshness_weight))
    ELSE IF strict /\ proximity_weight + freshness_weight # Wt(100)
      THEN Throw("Weights must sum to 100 in strict mode")
    ELSE Ok(ToFixed(proximity_weight * proximity_score
                      + freshness_weight * freshness_score,
                    100 * 100 * 1000, decimals))

-----------------------------------------------------------------------------
(* Products and arrays.  A product is a record; a field the object does    *)
(* not carry is UNDEFINED.  Dates are day numbers, NAN is an Invalid Date. *)
(* An array is its items together with isNew: whether it is an array       *)
(* object created by the call in hand (TRUE) or the caller's own (FALSE).  *)

(* A product carrying its id alone.  geo stands for the product's           *)
(* coordinates (location.lat/lng or latitude/longitude): it is the great-   *)
(* circle distance from the buyer that calculateDistance returns for them,  *)
(* NAN for coordinates calculateDistance rejects.                           *)
BareProduct(id) ==
    [id |-> id, price |-> UNDEFINED, geo |-> UNDEFINED,
     total_shelf_life_days |-> UNDEFINED, days_already_used |-> UNDEFINED,
     listed_date |-> UNDEFINED, remaining_shelf_life_days |-> UNDEFINED,
     is_expired |-> "undefined",
     distance_km |-> UNDEFINED, freshness_percent |-> UNDEFINED,
     expiration_date |-> UNDEFINED,
     proximity_score |-> UNDEFINED, freshness_score |-> UNDEFINED,
     combined_score |-> UNDEFINED]

Product(id, distance_km, freshness_percent, expiration_date) ==
    [BareProduct(id) EXCEPT !.distance_km = distance_km,
                            !.freshness_percent = freshness_percent,
                            !.expiration_date = expiration_date]

CallerArray(items) == [items |-> items, isNew |-> FALSE]

NewArray(items) == [items |-> items, isNew |-> TRUE]

(* The array itself in place of a copy of it *)
Spread_alias(array) == array

(* [...array] *)
Spread(array) == NewArray(array.items)

(* array.filter(callback): Throws(p) is the callback throwing on p, Keep(p) *)
(* its result.  The callback runs on every element in order, so a throw on  *)
(* any element ends the call.                                               *)
ArrayFilter(array, Throws(_), Keep(_)) ==
    IF \E i \in DOMAIN array.items : Throws(array.items[i])
      THEN Throw("filter callback threw")
    ELSE Ok(NewArray(SelectSeq(array.items, Keep)))

(* array.map(callback): F(p) is Ok(v) or a Throw; a throw on any element    *)
(* ends the call.                                                           *)
ArrayMap(array, F(_)) ==
    IF \E i \in DOMAIN array.items : F(array.items[i]).threw
      THEN Throw((F(array.items[CHOOSE i \in DOMAIN array.items :
                      /\ F(array.items[i]).threw
                      /\ \A j \in 1..(i - 1) : ~F(array.items[j]).threw])).msg)
    ELSE Ok(NewArray([i \in DOMAIN array.items |-> F(array.items[i]).value]))

(* array.sort(compare), a stable sort: an element comes before another     *)
(* when it compares less, or when neither compares less than the other and  *)
(* it came first.  The result puts every element at the position given by   *)
(* the number of elements that come before it.                              *)
ArraySort(items, Compare(_, _)) ==
    LET Before(j, i) ==
            \/ Compare(items[j], items[i]) < 0
            \/ /\ ~(Compare(items[i], items[j]) < 0)
               /\ j < i
        Position(i) == 1 + Cardinality({j \in DOMAIN items : Before(j, i)})
    IN  [k \in DOMAIN items |->
            items[CHOOSE i \in DOMAIN items : Position(i) = k]]

-----------------------------------------------------------------------------
(* shelf_life_calculator.js *)

(* isExpired(expirationDate, currentDate) with both dates valid *)
isExpired(expirationDate, currentDate) == currentDate > expirationDate

(* calculateShelfLifeMetrics(product) for a product that carries the three *)
(* fields it reads; clock is what new Date() returns.  Days are whole       *)
(* numbers, freshness_percent counts thousandths.                           *)
calculateShelfLifeMetrics(product, clock) ==
    LET total == product.total_shelf_life_days
        used == product.days_already_used
        remaining == total - used
    IN  IF ~IsNumber(total) \/ ~IsNumber(used) \/ IsNaN(total) \/ IsNaN(used)
          THEN Throw("totalShelfLifeDays and daysAlreadyUsed must be numbers")
        ELSE IF total <= 0 THEN Throw("totalShelfLifeDays must be positive")
        ELSE IF used < 0 THEN Throw("daysAlreadyUsed cannot be negative")
        ELSE IF used > total
          THEN Throw("daysAlreadyUsed cannot exceed totalShelfLifeDays")
        ELSE IF IsNaN(product.listed_date) THEN Throw("Invalid date")
        ELSE Ok([remaining_shelf_life_days |-> remaining,
                 freshness_percent |-> ToFixed(100 * remaining, total, 2),
                 expiration_date |-> product.listed_date + remaining,
                 is_expired |-> IF isExpired(product.listed_date + remaining, clock)
                                  THEN "true" ELSE "false"])

filterExpiredProducts(products, currentDate) ==
    ArrayFilter(products,
        LAMBDA product : IsFalsy(product.expiration_date)
                            \/ IsNaN(product.expiration_date),
        LAMBDA product : ~isExpired(product.expiration_date, currentDate))

filterByFreshness(products, minFreshnessPercent) ==
    IF ~IsNumber(minFreshnessPercent) \/ IsNaN(minFreshnessPercent)
      THEN Throw("minFreshnessPercent must be a number")
    ELSE IF minFreshnessPercent < 0 \/ minFreshnessPercent > Num(100)
      THEN Throw("minFreshnessPercent must be between 0 and 100")
    ELSE ArrayFilter(products,
        LAMBDA product : ~IsNumber(product.freshness_percent),
        LAMBDA product : /\ ~IsNaN(product.freshness_percent)
                         /\ product.freshness_percent >= minFreshnessPercent)

-----------------------------------------------------------------------------
(* product_filter.js *)

(* filterByProximity with an exclusive boundary *)
filterByProximity_exclusive(products, maxRadiusKm) ==
    IF ~IsNumber(maxRadiusKm) \/ IsNaN(maxRadiusKm) \/ maxRadiusKm <= 0
      THEN Throw("invalid")
    ELSE ArrayFilter(products,
        LAMBDA product : ~IsNumber(product.distance_km)
                            \/ IsNaN(product.distance_km),
        LAMBDA product : product.distance_km < maxRadiusKm)

filterByProximity(products, maxRadiusKm) ==
    IF ~IsNumber(maxRadiusKm) \/ IsNaN(maxRadiusKm)
      THEN Throw("maxRadiusKm must be a number")
    ELSE IF maxRadiusKm <= 0
      THEN Throw("maxRadiusKm must be positive")
    ELSE ArrayFilter(products,
        LAMBDA product : ~IsNumber(product.distance_km)
                            \/ IsNaN(product.distance_km),
        LAMBDA product : product.distance_km <= maxRadiusKm)

(* The configuration applyFilters works with: filterConfig with its         *)
(* defaults applied.  clock is what new Date() returns.                     *)
FilterDefaults(filterConfig, clock) ==
    [filterExpired |-> filterConfig.filterExpired # "false",
     maxRadiusKm |-> IF IsFalsy(filterConfig.maxRadiusKm)
                       THEN NULL ELSE filterConfig.maxRadiusKm,
     minFreshnessPercent |-> IF IsFalsy(filterConfig.minFreshnessPercent)
                               THEN NULL ELSE filterConfig.minFreshnessPercent,
     currentDate |-> IF IsFalsy(filterConfig.currentDate)
                       THEN clock ELSE filterConfig.currentDate]

NoStats ==
    [initial |-> 0, afterExpiration |-> 0, afterProximity |-> 0,
     afterFreshness |-> 0, final |-> 0, removedExpired |-> 0,
     removedProximity |-> 0, removedFreshness |-> 0]

(* stats, from the list's length on entry (n0) and after the expiration,   *)
(* proximity and freshness steps (n1, n2, n3); a disabled step keeps the    *)
(* length and its removal counter stays 0.                                  *)
FilterStats_fromInitial(config, n0, n1, n2, n3) ==
    [initial |-> n0, afterExpiration |-> n1, afterProximity |-> n2,
     afterFreshness |-> n3, final |-> n3,
     removedExpired |-> IF config.filterExpired THEN n0 - n1 ELSE 0,
     removedProximity |-> IF config.maxRadiusKm # NULL THEN n0 - n2 ELSE 0,
     removedFreshness |-> IF config.minFreshnessPercent # NULL THEN n0 - n3 ELSE 0]

FilterStats_keptAsRemoved(config, n0, n1, n2, n3) ==
    [initial |-> n0, afterExpiration |-> n1, afterProximity |-> n2,
     afterFreshness |-> n3, final |-> n3,
     removedExpired |-> IF config.filterExpired THEN n0 - n1 ELSE 0,
     removedProximity |-> IF config.maxRadiusKm # NULL THEN n2 ELSE 0,
     removedFreshness |-> IF config.minFreshnessPercent # NULL THEN n2 - n3 ELSE 0]

FilterStats(config, n0, n1, n2, n3) ==
    [initial |-> n0, afterExpiration |-> n1, afterProximity |-> n2,
     afterFreshness |-> n3, final |-> n3,
     removedExpired |-> IF config.filterExpired THEN n0 - n1 ELSE 0,
     removedProximity |-> IF config.maxRadiusKm # NULL THEN n1 - n2 ELSE 0,
     removedFreshness |-> IF config.minFreshnessPercent # NULL THEN n2 - n3 ELSE 0]

(* What an applyFilters call leaves: whether it threw, the returned         *)
(* {filtered, stats}, and products, the caller's array after the call.      *)
FilterThrow(m, products) ==
    [threw |-> TRUE, msg |-> m, filtered |-> NewArray(<<>>), stats |-> NoStats,
     products |-> products]

(* applyFilters with the stages in the order freshness, radius, expiration *)
applyFilters_freshnessFirst(products, filterConfig, clock) ==
    LET config == FilterDefaults(filterConfig, clock)
        filtered0 == Spread(products)
        step1 == IF config.minFreshnessPercent # NULL
                   THEN filterByFreshness(filtered0, config.minFreshnessPercent)
                   ELSE Ok(filtered0)
        step2 == IF step1.threw THEN step1
                 ELSE IF config.maxRadiusKm # NULL
                   THEN filterByProximity(step1.value, config.maxRadiusKm)
                   ELSE step1
        step3 == IF step2.threw THEN step2
                 ELSE IF config.filterExpired
                   THEN filterExpiredProducts(step2.value, config.currentDate)
                   ELSE step2
    IN  IF step3.threw THEN FilterThrow(step3.msg, products)
        ELSE [threw |-> FALSE, msg |-> "",
              filtered |-> step3.value,
              stats |-> [initial |-> Len(filtered0.items),
                         afterExpiration |-> Len(step3.value.items),
                         afterProximity |-> Len(step2.value.items),
                         afterFreshness |-> Len(step1.value.items),
                         final |-> Len(step3.value.items),
                         removedExpired |->
                             Len(step2.value.items) - Len(step3.value.items),
                         removedProximity |->
                             Len(step1.value.items) - Len(step2.value.items),
                         removedFreshness |->
                             Len(filtered0.items) - Len(step1.value.items)],
              products |-> products]

applyFilters(products, filterConfig, clock) ==
    LET config == FilterDefaults(filterConfig, clock)
        filtered0 == Spread(products)
        step1 == IF config.filterExpired
                   THEN filterExpiredProducts(filtered0, config.currentDate)
                   ELSE Ok(filtered0)
        step2 == IF step1.threw THEN step1
                 ELSE IF config.maxRadiusKm # NULL
                   THEN filterByProximity(step1.value, config.maxRadiusKm)
                   ELSE step1
        step3 == IF step2.threw THEN step2
                 ELSE IF config.minFreshnessPercent # NULL
                   THEN filterByFreshness(step2.value, config.minFreshnessPercent)
                   ELSE step2
    IN  IF step3.threw THEN FilterThrow(step3.msg, products)
        ELSE [threw |-> FALSE, msg |-> "",
              filtered |-> step3.value,
              stats |-> FilterStats(config, Len(filtered0.items),
                                    Len(step1.value.items),
                                    Len(step2.value.items),
                                    Len(step3.value.items)),
              products |-> products]

-----------------------------------------------------------------------------
(* combined_score_calculator.js, on products *)

(* calculateProductScore taking a score the product lacks as 0 *)
calculateProductScore_defaultZero(product, proximity_weight, freshness_weight, strict) ==
    LET combined_score ==
            calculateCombinedScore(
                IF IsNumber(product.proximity_score)
                  THEN product.proximity_score ELSE 0,
                IF IsNumber(product.freshness_score)
                  THEN product.freshness_score ELSE 0,
                proximity_weight, freshness_weight, strict, 2)
    IN  IF combined_score.threw THEN combined_score
        ELSE Ok([product EXCEPT !.combined_score = combined_score.value])

calculateProductScore(product, proximity_weight, freshness_weight, strict) ==
    IF ~IsNumber(product.proximity_score)
      THEN Throw("product.proximity_score must be a number")
    ELSE IF ~IsNumber(product.freshness_score)
      THEN Throw("product.freshness_score must be a number")
    ELSE LET combined_score ==
                 calculateCombinedScore(product.proximity_score,
                                        product.freshness_score,
                                        proximity_weight, freshness_weight,
                                        strict, 2)
         IN  IF combined_score.threw THEN combined_score
             ELSE Ok([product EXCEPT !.combined_score = combined_score.value])

calculateCombinedScoresBatch(products, proximity_weight, freshness_weight, strict) ==
    IF validateWeight(proximity_weight) # ""
      THEN Throw("proximity_weight " \o validateWeight(proximity_weight))
    ELSE IF validateWeight(freshness_weight) # ""
      THEN Throw("freshness_weight " \o validateWeight(freshness_weight))
    ELSE IF strict /\ proximity_weight + freshness_weight # Wt(100)
      THEN Throw("Weights must sum to 100 in strict mode")
    ELSE ArrayMap(products,
        LAMBDA product : calculateProductScore(product, proximity_weight,
                                               freshness_weight, strict))

(* sortByCombinedScore(products, { descending }).  The compare function    *)
(* throws on a combined_score that is not of type number; the sort calls it *)
(* on every product of a list of two or more, and never on a shorter list.  *)
sortByCombinedScore(products, descending) ==
    IF /\ Len(products.items) >= 2
       /\ \E i \in DOMAIN products.items : ~IsNumber(products.items[i].combined_score)
      THEN Throw("All products must have a numeric combined_score property")
    ELSE Ok(NewArray(ArraySort(products.items,
             LAMBDA a, b : IF descending
                             THEN b.combined_score - a.combined_score
                             ELSE a.combined_score - b.combined_score)))

-----------------------------------------------------------------------------
(* product_ranker.js *)

(* The compare function of the ranking sort, ascending instead *)
byScoreDescending_ascending(a, b) == a.combined_score - b.combined_score

(* (a, b) => b.combined_score - a.combined_score *)
byScoreDescending(a, b) == b.combined_score - a.combined_score

(* A parameter's default value applies when the argument is undefined *)
DefaultTo(x, default) == IF x = UNDEFINED THEN default ELSE x

(* a || b *)
OrElse(a, b) == IF IsFalsy(a) THEN b ELSE a

(* The callback of products.map, computing both scores for every product *)
withScores_recompute(product, maxRadius) ==
    LET proximity_score ==
            normalizeProximityScore(product.distance_km, maxRadius, 2)
        freshness_score == normalizeFreshnessScore(product.freshness_percent, 2)
    IN  IF proximity_score.threw THEN proximity_score
        ELSE IF freshness_score.threw THEN freshness_score
        ELSE Ok([product EXCEPT !.proximity_score = proximity_score.value,
                                !.freshness_score = freshness_score.value])

(* The callback of products.map: the product itself when it carries both    *)
(* scores as numbers, else the product with both scores computed.           *)
withScores(product, maxRadius) ==
    IF IsNumber(product.proximity_score) /\ IsNumber(product.freshness_score)
      THEN Ok(product)
    ELSE LET proximity_score ==
                 normalizeProximityScore(product.distance_km, maxRadius, 2)
             freshness_score ==
                 normalizeFreshnessScore(product.freshness_percent, 2)
         IN  IF proximity_score.threw THEN proximity_score
             ELSE IF freshness_score.threw THEN freshness_score
             ELSE Ok([product EXCEPT !.proximity_score = proximity_score.value,
                                     !.freshness_score = freshness_score.value])

(* The sort done ascending and then reversed *)
rankedProducts_ascendingReversed(scoredProducts) ==
    LET ascending == ArraySort(scoredProducts, byScoreDescending_ascending)
    IN  [i \in DOMAIN ascending |-> ascending[Len(ascending) + 1 - i]]

(* The sort leaving products of equal combined_score in reverse order *)
rankedProducts_tiesReversed(scoredProducts) ==
    ArraySort([i \in DOMAIN scoredProducts |->
                  scoredProducts[Len(scoredProducts) + 1 - i]],
              byScoreDescending)

(* scoredProducts.sort((a, b) => b.combined_score - a.combined_score) *)
rankedProducts(scoredProducts) == ArraySort(scoredProducts, byScoreDescending)

scoreAndRankProducts(products, buyer, options) ==
    LET proximityWeight == DefaultTo(options.proximityWeight, Wt(50))
        freshnessWeight == DefaultTo(options.freshnessWeight, Wt(50))
        maxRadius == OrElse(buyer.max_radius, OrElse(buyer.max_radius_km, Num(50)))
        productsWithScores ==
            ArrayMap(products, LAMBDA product : withScores(product, maxRadius))
        scoredProducts ==
            calculateCombinedScoresBatch(productsWithScores.value, proximityWeight,
                                         freshnessWeight, TRUE)
    IN  IF ~buyer.hasPreferences THEN Throw("buyer must have preferences object")
        ELSE IF Len(products.items) = 0 THEN Ok(NewArray(<<>>))
        ELSE IF productsWithScores.threw THEN productsWithScores
        ELSE IF scoredProducts.threw THEN scoredProducts
        ELSE Ok(NewArray(rankedProducts(scoredProducts.value.items)))

(* createWeightConfig(proximityWeight, freshnessWeight, { strict, normalize }) *)
(* for weights that are numbers (not NaN) or undefined.                       *)
createWeightConfig(proximityWeight, freshnessWeight, strict, normalize) ==
    LET sum == proximityWeight + freshnessWeight
    IN  IF ~IsNumber(proximityWeight) \/ ~IsNumber(freshnessWeight)
          THEN Throw("Weights must be numbers")
        ELSE IF proximityWeight < 0 \/ proximityWeight > Wt(100)
          THEN Throw("proximityWeight must be 0-100")
        ELSE IF freshnessWeight < 0 \/ freshnessWeight > Wt(100)
          THEN Throw("freshnessWeight must be 0-100")
        ELSE IF normalize /\ sum # Wt(100) /\ sum > 0
          THEN Ok([proximityWeight |-> ToFixed(100 * proximityWeight, sum, 2) \div 10,
                   freshnessWeight |-> ToFixed(100 * freshnessWeight, sum, 2) \div 10])
        ELSE IF strict /\ sum # Wt(100) THEN Throw("Weights must sum to 100")
        ELSE Ok([proximityWeight |-> proximityWeight,
                 freshnessWeight |-> freshnessWeight])

(* getWeightPresets() *)
getWeightPresets ==
    [balanced |-> [proximityWeight |-> Wt(50), freshnessWeight |-> Wt(50)],
     proximity_focused |-> [proximityWeight |-> Wt(70), freshnessWeight |-> Wt(30)],
     freshness_focused |-> [proximityWeight |-> Wt(30), freshnessWeight |-> Wt(70)],
     extreme_proximity |-> [proximityWeight |-> Wt(90), freshnessWeight |-> Wt(10)],
     extreme_freshness |-> [proximityWeight |-> Wt(10), freshnessWeight |-> Wt(90)],
     convenience |-> [proximityWeight |-> Wt(80), freshnessWeight |-> Wt(20)],
     quality |-> [proximityWeight |-> Wt(20), freshnessWeight |-> Wt(80)]]

-----------------------------------------------------------------------------
(* product_sorter.js *)

validCriteria == {"price", "distance", "freshness", "score", "expiration"}

(* p[propertyMap[sortBy]]; for 'expiration' the date's getTime() *)
SortValue(p, sortBy) ==
    CASE sortBy = "price" -> p.price
      [] sortBy = "distance" -> p.distance_km
      [] sortBy = "freshness" -> p.freshness_percent
      [] sortBy = "score" -> p.combined_score
      [] sortBy = "expiration" -> p.expiration_date

(* The compare function of the sort: valA - valB, or valB - valA unless the *)
(* order is 'asc'.  A NaN result (an Invalid Date's getTime() is NaN) is    *)
(* taken as 0 by Array.prototype.sort.                                      *)
SortCompare(a, b, sortBy, sortOrder) ==
    LET valA == SortValue(a, sortBy)
        valB == SortValue(b, sortBy)
    IN  IF IsNaN(valA) \/ IsNaN(valB) THEN 0
        ELSE IF sortOrder = "asc" THEN valA - valB
        ELSE valB - valA

(* The product fails the validation of the property sorted on.  A date is  *)
(* a Date object, valid or not; undefined and null are not.                 *)
MissingProperty(p, sortBy) ==
    IF sortBy = "expiration"
      THEN SortValue(p, sortBy) \in {UNDEFINED, NULL}
      ELSE ~IsNumber(SortValue(p, sortBy)) \/ IsNaN(SortValue(p, sortBy))

(* sortProducts leaving out the products without a valid property *)
sortProducts_skipInvalid(products, sortBy, order) ==
    LET defaultOrder == IF sortBy = "price" \/ sortBy = "distance"
                          THEN "asc" ELSE "desc"
        sortOrder == IF order = "" THEN defaultOrder ELSE order
    IN  IF Len(products.items) = 0 THEN Ok(NewArray(<<>>))
        ELSE IF sortBy \notin validCriteria THEN Throw("Invalid sortBy value")
        ELSE Ok(NewArray(ArraySort(
                 SelectSeq(products.items, LAMBDA p : ~MissingProperty(p, sortBy)),
                 LAMBDA a, b : SortCompare(a, b, sortBy, sortOrder))))

(* sortProducts with ascending as the default order of every criterion *)
sortProducts_defaultAsc(products, sortBy, order) ==
    LET sortOrder == IF order = "" THEN "asc" ELSE order
    IN  IF Len(products.items) = 0 THEN Ok(NewArray(<<>>))
        ELSE IF sortBy \notin validCriteria THEN Throw("Invalid sortBy value")
        ELSE IF \E i \in DOMAIN products.items :
                    MissingProperty(products.items[i], sortBy)
          THEN Throw("All products must have a valid property for sorting")
        ELSE Ok(NewArray(ArraySort(products.items,
                 LAMBDA a, b : SortCompare(a, b, sortBy, sortOrder))))

(* order is "" when the argument is not given, or given as null *)
sortProducts(products, sortBy, order) ==
    LET defaultOrder == IF sortBy = "price" \/ sortBy = "distance"
                          THEN "asc" ELSE "desc"
        sortOrder == IF order = "" THEN defaultOrder ELSE order
        missingProperty ==
            \E i \in DOMAIN products.items :
                MissingProperty(products.items[i], sortBy)
    IN  IF Len(products.items) = 0 THEN Ok(NewArray(<<>>))
        ELSE IF sortBy \notin validCriteria THEN Throw("Invalid sortBy value")
        ELSE IF missingProperty
          THEN Throw("All products must have a valid property for sorting")
        ELSE Ok(NewArray(ArraySort(products.items,
                 LAMBDA a, b : SortCompare(a, b, sortBy, sortOrder))))

rankingMode(products, buyer, options) ==
    scoreAndRankProducts(products, buyer, options)

(* F(v), with v computed once however often F refers to it *)
WithValue(v, F(_)) == CHOOSE out \in {F(x) : x \in {v}} : TRUE

(* options.sortBy and options.order are "" when not given *)
filterAndSortMode(products, buyer, options, clock) ==
    LET sortBy == IF options.sortBy = "" THEN "price" ELSE options.sortBy
        filterConfig ==
            [filterExpired |-> "undefined",
             maxRadiusKm |-> OrElse(buyer.max_radius,
                                    OrElse(buyer.max_radius_km, Num(50))),
             minFreshnessPercent |-> OrElse(buyer.min_freshness, NULL),
             currentDate |-> UNDEFINED]
        processedProducts(filterResult) ==
            IF options.applyFilter THEN filterResult.filtered ELSE products
        filterSummary(filterResult) ==
            IF options.applyFilter
              THEN [initialCount |-> filterResult.stats.initial,
                    finalCount |-> filterResult.stats.final,
                    removed |-> [expired |-> filterResult.stats.removedExpired,
                                 out_of_range |-> filterResult.stats.removedProximity,
                                 not_fresh_enough |->
                                     filterResult.stats.removedFreshness]]
              ELSE [initialCount |-> NULL, finalCount |-> NULL,
                    removed |-> [expired |-> NULL, out_of_range |-> NULL,
                                 not_fresh_enough |-> NULL]]
        sorted(filterResult) ==
            WithValue(sortProducts(processedProducts(filterResult), sortBy,
                                   options.order),
                LAMBDA sortedProducts :
                    IF sortedProducts.threw THEN sortedProducts
                    ELSE Ok([products |-> sortedProducts.value,
                             summary |-> filterSummary(filterResult)]))
    IN  IF ~buyer.hasPreferences THEN Throw("buyer must have preferences object")
        ELSE WithValue(applyFilters(products, filterConfig, clock),
                 LAMBDA filterResult :
                     IF options.applyFilter /\ filterResult.threw
                       THEN Throw(filterResult.msg)
                     ELSE sorted(filterResult))

(* config.mode, config.sortBy and config.order are "" when not given, the   *)
(* weights UNDEFINED.                                                       *)
displayProducts(products, buyer, config, clock) ==
    LET mode == IF config.mode = "" THEN "ranking" ELSE config.mode
        sortBy == IF config.sortBy = "" THEN "price" ELSE config.sortBy
        proximityWeight == DefaultTo(config.proximityWeight, Wt(50))
        freshnessWeight == DefaultTo(config.freshnessWeight, Wt(50))
        ranking(rankedProducts_) ==
            IF rankedProducts_.threw THEN rankedProducts_
            ELSE Ok([products |-> rankedProducts_.value,
                     mode |-> "ranking",
                     summary |-> [count |-> Len(rankedProducts_.value.items),
                                  weights |->
                                     [proximityWeight |-> proximityWeight,
                                      freshnessWeight |-> freshnessWeight]]])
        filter(result) ==
            IF result.threw THEN result
            ELSE Ok([products |-> result.value.products,
                     mode |-> "filter",
                     summary |->
                        [initialCount |-> result.value.summary.initialCount,
                         finalCount |-> result.value.summary.finalCount,
                         removed |-> result.value.summary.removed,
                         sortedBy |-> sortBy,
                         sortOrder |->
                            IF config.order # "" THEN config.order
                            ELSE IF sortBy = "price" \/ sortBy = "distance"
                              THEN "asc" ELSE "desc"]])
    IN  IF mode # "ranking" /\ mode # "filter" THEN Throw("Invalid mode")
        ELSE IF mode = "ranking"
          THEN WithValue(rankingMode(products, buyer,
                                     [proximityWeight |-> proximityWeight,
                                      freshnessWeight |-> freshnessWeight]),
                         ranking)
        ELSE WithValue(filterAndSortMode(products, buyer,
                           [sortBy |-> sortBy, order |-> config.order,
                            applyFilter |-> TRUE], clock),
                       filter)

getSortOptions ==
    <<[value |-> "price", label |-> "Price", defaultOrder |-> "asc"],
      [value |-> "distance", label |-> "Distance", defaultOrder |-> "asc"],
      [value |-> "freshness", label |-> "Freshness", defaultOrder |-> "desc"],
      [value |-> "score", label |-> "Combined Score", defaultOrder |-> "desc"],
      [value |-> "expiration", label |-> "Expiration Date", defaultOrder |-> "asc"]>>

-----------------------------------------------------------------------------
(* chenda_algorithm.js.  Weights in a config are fractions of 1, counted in *)
(* thousandths (0.7 is 700); an option the config does not give is          *)
(* UNDEFINED, or "" where the option is a string.                           *)

(* defaultConfig with balanced weights *)
defaultConfig_balanced ==
    [max_radius |-> Num(10),
     weights |-> [proximity_weight |-> 500, freshness_weight |-> 500],
     min_freshness_score |-> 0,
     mode |-> "ranking",
     sort_by |-> "score",
     sort_order |-> "desc",
     weight_preset |-> ""]

(* defaultConfig with price as the sort criterion *)
defaultConfig_sortByPrice ==
    [max_radius |-> Num(10),
     weights |-> [proximity_weight |-> 400, freshness_weight |-> 600],
     min_freshness_score |-> 0,
     mode |-> "ranking",
     sort_by |-> "price",
     sort_order |-> "desc",
     weight_preset |-> ""]

defaultConfig ==
    [max_radius |-> Num(10),
     weights |-> [proximity_weight |-> 400, freshness_weight |-> 600],
     min_freshness_score |-> 0,
     mode |-> "ranking",
     sort_by |-> "score",
     sort_order |-> "desc",
     weight_preset |-> ""]

(* weight * 100, a fraction in thousandths to a weight in hundredths *)
Times100(fraction) == fraction * 10

(* weight / 100, a weight in hundredths to a fraction in thousandths *)
Over100(weight) == weight \div 10

(* { ...defaultConfig, ...config } *)
MergedConfig(config) ==
    [max_radius |-> DefaultTo(config.max_radius, defaultConfig.max_radius),
     weights |-> IF config.weights.given THEN config.weights
                 ELSE [given |-> TRUE,
                       proximity_weight |-> defaultConfig.weights.proximity_weight,
                       freshness_weight |-> defaultConfig.weights.freshness_weight],
     min_freshness_score |-> DefaultTo(config.min_freshness_score,
                                       defaultConfig.min_freshness_score),
     mode |-> IF config.mode = "" THEN defaultConfig.mode ELSE config.mode,
     sort_by |-> IF config.sort_by = "" THEN defaultConfig.sort_by ELSE config.sort_by,
     sort_order |-> IF config.sort_order = ""
                      THEN defaultConfig.sort_order ELSE config.sort_order,
     weight_preset |-> config.weight_preset]

(* The preset's weights, as fractions, in place of the config's when        *)
(* weight_preset names a preset.                                            *)
WithPreset(finalConfig) ==
    LET presets == getWeightPresets
    IN  IF finalConfig.weight_preset # ""
             /\ finalConfig.weight_preset \in DOMAIN presets
          THEN [finalConfig EXCEPT !.weights =
                  [given |-> TRUE,
                   proximity_weight |->
                       Over100(presets[finalConfig.weight_preset].proximityWeight),
                   freshness_weight |->
                       Over100(presets[finalConfig.weight_preset].freshnessWeight)]]
          ELSE finalConfig

(* { ...defaultConfig.weights, ...finalConfig.weights } *)
MergeWeights(finalConfig) ==
    [finalConfig EXCEPT !.weights =
        [proximity_weight |-> DefaultTo(finalConfig.weights.proximity_weight,
                                        defaultConfig.weights.proximity_weight),
         freshness_weight |-> DefaultTo(finalConfig.weights.freshness_weight,
                                        defaultConfig.weights.freshness_weight)]]

(* finalConfig with the preset applied only when the config gives no weights *)
FinalConfig_weightsOverPreset(config) ==
    IF config.weights.given THEN MergeWeights(MergedConfig(config))
    ELSE MergeWeights(WithPreset(MergedConfig(config)))

(* finalConfig: { ...defaultConfig, ...config }, then the preset, then the   *)
(* weights merged over the default weights.                                 *)
FinalConfig(config) == MergeWeights(WithPreset(MergedConfig(config)))

(* STEP 1, for one product *)
Enrich(product, clock) ==
    LET withDistance ==
            IF product.geo # UNDEFINED
              THEN [product EXCEPT !.distance_km = product.geo]
              ELSE product
        shelfLife == calculateShelfLifeMetrics(product, clock)
    IN  IF IsNaN(product.geo) THEN Throw("invalid coordinates")
        ELSE IF product.total_shelf_life_days # UNDEFINED
                  /\ product.days_already_used # UNDEFINED
                  /\ ~IsFalsy(product.listed_date)
          THEN IF shelfLife.threw THEN shelfLife
               ELSE Ok([withDistance EXCEPT
                          !.remaining_shelf_life_days =
                              shelfLife.value.remaining_shelf_life_days,
                          !.freshness_percent = shelfLife.value.freshness_percent,
                          !.expiration_date = shelfLife.value.expiration_date,
                          !.is_expired = shelfLife.value.is_expired])
        ELSE Ok(withDistance)

(* The filter configuration of STEP 2 with expiration filtering left on *)
Step2FilterConfig_filterExpired(finalConfig) ==
    [filterExpired |-> "true",
     maxRadiusKm |-> finalConfig.max_radius,
     minFreshnessPercent |-> finalConfig.min_freshness_score,
     currentDate |-> UNDEFINED]

(* The filter configuration of STEP 2 *)
Step2FilterConfig(finalConfig) ==
    [filterExpired |-> "false",
     maxRadiusKm |-> finalConfig.max_radius,
     minFreshnessPercent |-> finalConfig.min_freshness_score,
     currentDate |-> UNDEFINED]

chendaAlgorithm(buyer, products, config, clock) ==
    LET finalConfig == FinalConfig(config)
        enrichedProducts == ArrayMap(products, LAMBDA product : Enrich(product, clock))
        filterResult == applyFilters(enrichedProducts.value,
                                     Step2FilterConfig(finalConfig), clock)
        filteredProducts == filterResult.filtered
        mockBuyer == [hasPreferences |-> TRUE,
                      max_radius |-> finalConfig.max_radius,
                      max_radius_km |-> UNDEFINED]
        finalProducts ==
            IF finalConfig.mode = "ranking"
              THEN scoreAndRankProducts(filteredProducts, mockBuyer,
                       [proximityWeight |->
                            Times100(finalConfig.weights.proximity_weight),
                        freshnessWeight |->
                            Times100(finalConfig.weights.freshness_weight)])
              ELSE sortProducts(filteredProducts, finalConfig.sort_by,
                                finalConfig.sort_order)
    IN  IF ~buyer.hasCoordinates
          THEN Throw("Invalid buyer object: must have latitude and longitude")
        ELSE IF enrichedProducts.threw THEN enrichedProducts
        ELSE IF filterResult.threw THEN Throw(filterResult.msg)
        ELSE IF finalProducts.threw THEN finalProducts
        ELSE Ok([products |-> finalProducts.value,
                 metadata |->
                    [stats |-> [input_products |-> Len(products.items),
                                enriched_products |-> Len(enrichedProducts.value.items),
                                filtered_products |-> Len(filteredProducts.items),
                                output_products |-> Len(finalProducts.value.items),
                                filter_stats |-> filterResult.stats],
                     config |-> finalConfig]])

-----------------------------------------------------------------------------
(* Inputs *)

DecimalsValues == {0, 2, 3}

DistanceValues == {UNDEFINED, NAN, 0 - 5000, 0, 1, 2, 3, 5, 7, 8, 5000, 12500,
                   25000, 33333, 50000, 60000}

RadiusValues == {UNDEFINED, 0, 3, 7, 10000, 50000}

PercentValues == {UNDEFINED, NAN, 0 - 1, 0, 10000, 33333, 33336, 50000,
                  82140, 82146, 100000, 100001}

ScoreValues == {0, 33333, 33336, 50000, 82140, 100000, 100001, NAN}

WeightValues == {0, 3000, 3636, 5000, 6000, 6364, 7000, 10000}

MaxLen == 3

(* All sequences over S of length at most n *)
RECURSIVE SeqsUpTo(_, _)
SeqsUpTo(S, n) ==
    IF n = 0 THEN {<<>>}
    ELSE LET shorter == SeqsUpTo(S, n - 1)
         IN  shorter \cup {Append(q, x) : q \in shorter, x \in S}

(* Products for the filters: dates are day numbers around day 10.          *)
FilterPool ==
    {Product(1, 5000, 82140, 20),
     Product(2, 50000, 50000, 10),
     Product(3, 60000, 10000, 5),
     Product(4, 25000, 33333, 15),
     Product(5, 50001, 49999, 12),
     Product(6, UNDEFINED, UNDEFINED, UNDEFINED)}

FilterConfigs ==
    [filterExpired : {"true", "false", "undefined"},
     maxRadiusKm : {UNDEFINED, 0, 50000, 0 - 5000},
     minFreshnessPercent : {UNDEFINED, 50000, 150000},
     currentDate : {UNDEFINED, 10}]

ClockValues == {10, 16}

Scored(id, distance_km, freshness_percent, proximity_score, freshness_score) ==
    [Product(id, distance_km, freshness_percent, UNDEFINED) EXCEPT
        !.proximity_score = proximity_score,
        !.freshness_score = freshness_score]

(* Products for the ranker: 2 and 3 tie under 50/50 weights and a 50 km      *)
(* radius; 5 and 6 arrive with scores, 6 with one out of range; 7 has no     *)
(* distance.                                                                *)
RankPool ==
    {Product(1, 0, 100000, UNDEFINED),
     Product(2, 25000, 50000, UNDEFINED),
     Product(3, 12500, 25000, UNDEFINED),
     Product(4, 60000, 82140, UNDEFINED),
     Scored(5, 10000, 90000, 80000, 90000),
     Scored(6, 10000, 90000, 150000, 90000),
     Product(7, UNDEFINED, 33333, UNDEFINED)}

(* Products for the batch combiner: 1 and 2 carry both scores, 3 lacks    *)
(* proximity_score, 4 lacks freshness_score, 5 has a NaN score, 6 a score  *)
(* out of range.                                                          *)
BatchPool ==
    {Scored(1, UNDEFINED, UNDEFINED, Num(80), Num(90)),
     Scored(2, UNDEFINED, UNDEFINED, Num(60), Num(70)),
     Scored(3, 10000, 90000, UNDEFINED, Num(90)),
     Scored(4, 10000, 90000, Num(80), UNDEFINED),
     Scored(5, UNDEFINED, UNDEFINED, NAN, Num(90)),
     Scored(6, UNDEFINED, UNDEFINED, Num(80), 100001)}

BatchWeights ==
    {<<Wt(50), Wt(50)>>, <<Wt(70), Wt(30)>>, <<Wt(60), Wt(50)>>,
     <<UNDEFINED, Wt(50)>>}

(* A product carrying every property that sortProducts sorts on *)
Sortable(id, price, distance_km, freshness_percent, combined_score, expiration_date) ==
    [Product(id, distance_km, freshness_percent, expiration_date) EXCEPT
        !.price = price, !.combined_score = combined_score]

(* Products for the sorter: 2 and 3 tie on price and on score, 4 carries    *)
(* none of the properties, 5 has no score and a NaN distance, 6 has an      *)
(* Invalid Date.                                                            *)
SortPool ==
    {Sortable(1, Num(120), Num(5), 82140, Num(70), 20),
     Sortable(2, Num(80), 0, Num(50), Num(90), 12),
     Sortable(3, Num(80), Num(25), 33333, Num(90), 15),
     BareProduct(4),
     Sortable(5, Num(50), NAN, Num(100), UNDEFINED, 30),
     Sortable(6, Num(60), Num(10), Num(60), Num(60), NAN)}

SortByValues == validCriteria \cup {"name", ""}

SortOrderValues == {"", "asc", "desc"}

(* Weights for createWeightConfig, out of 100 in hundredths: 67 and 93     *)
(* normalize to 41.875 and 58.125.                                          *)
ConfigWeightValues ==
    {UNDEFINED, 0 - Wt(5), 0, Wt(1), Wt(2), Wt(30), Wt(50), Wt(60), Wt(67),
     Wt(70), Wt(93), Wt(100), Wt(101)}

Buyers ==
    {[hasPreferences |-> TRUE, max_radius |-> Num(50), max_radius_km |-> UNDEFINED],
     [hasPreferences |-> TRUE, max_radius |-> UNDEFINED, max_radius_km |-> Num(10)],
     [hasPreferences |-> TRUE, max_radius |-> UNDEFINED, max_radius_km |-> UNDEFINED],
     [hasPreferences |-> FALSE, max_radius |-> UNDEFINED, max_radius_km |-> UNDEFINED]}

RankOptions ==
    {[proximityWeight |-> UNDEFINED, freshnessWeight |-> UNDEFINED],
     [proximityWeight |-> Wt(70), freshnessWeight |-> Wt(30)],
     [proximityWeight |-> Wt(30), freshnessWeight |-> Wt(70)],
     [proximityWeight |-> Wt(100), freshnessWeight |-> 0],
     [proximityWeight |-> 6364, freshnessWeight |-> 3636],
     [proximityWeight |-> Wt(60), freshnessWeight |-> Wt(50)],
     [proximityWeight |-> Wt(70), freshnessWeight |-> UNDEFINED]}

Raw(id, price, geo, total_shelf_life_days, days_already_used, listed_date) ==
    [BareProduct(id) EXCEPT !.price = price, !.geo = geo,
                            !.total_shelf_life_days = total_shelf_life_days,
                            !.days_already_used = days_already_used,
                            !.listed_date = listed_date]

(* Products for the whole pipeline: 1 to 3 carry coordinates and shelf life  *)
(* (82.14, 50 and 33.33 percent fresh; 3 lies beyond the default radius), 4  *)
(* arrives with distance_km, freshness_percent and a combined_score         *)
(* instead, 5 has used more days than its shelf life.                       *)
ChendaPool ==
    {Raw(1, Num(120), 5000, 28, 5, 8),
     Raw(2, Num(80), 0, 10, 5, 9),
     Raw(3, Num(50), 12000, 3, 2, 7),
     [Product(4, 60000, 90000, UNDEFINED) EXCEPT !.price = Num(80),
                                                 !.combined_score = Num(75)],
     Raw(5, UNDEFINED, 2500, 10, 12, 8)}

NoWeights ==
    [given |-> FALSE, proximity_weight |-> UNDEFINED, freshness_weight |-> UNDEFINED]

Weights(proximity_weight, freshness_weight) ==
    [given |-> TRUE, proximity_weight |-> proximity_weight,
     freshness_weight |-> freshness_weight]

RankingConfigs ==
    [max_radius : {UNDEFINED, 0, Num(50)},
     weights : {NoWeights},
     min_freshness_score : {UNDEFINED, Num(50)},
     mode : {"", "ranking"},
     sort_by : {""},
     sort_order : {""},
     weight_preset : {"", "proximity_focused", "no_such_preset"}]
    \cup
    [max_radius : {UNDEFINED, Num(50)},
     weights : {Weights(700, 300), Weights(500, UNDEFINED), Weights(200, 800)},
     min_freshness_score : {UNDEFINED},
     mode : {"ranking"},
     sort_by : {""},
     sort_order : {""},
     weight_preset : {"", "quality"}]

SortingConfigs ==
    [max_radius : {UNDEFINED, 0, Num(50)},
     weights : {NoWeights},
     min_freshness_score : {UNDEFINED},
     mode : {"filter"},
     sort_by : {"", "price", "distance", "freshness", "expiration", "name"},
     sort_order : {"", "asc"},
     weight_preset : {""}]

ChendaBuyers == {[hasCoordinates |-> TRUE], [hasCoordinates |-> FALSE]}

(* Products for the display: 1 to 3 are sortable by every criterion, 4 has *)
(* expired by day 10.                                                      *)
DisplayPool ==
    {Sortable(1, Num(120), Num(5), 82140, Num(70), 20),
     Sortable(2, Num(80), 0, Num(50), Num(90), 12),
     Sortable(3, Num(60), Num(25), 33333, Num(80), 15),
     Sortable(4, Num(50), Num(10), Num(20), Num(60), 5)}

DisplayBuyers ==
    {[hasPreferences |-> TRUE, max_radius |-> Num(50), max_radius_km |-> UNDEFINED,
      min_freshness |-> UNDEFINED],
     [hasPreferences |-> FALSE, max_radius |-> UNDEFINED,
      max_radius_km |-> UNDEFINED, min_freshness |-> UNDEFINED]}

DisplayConfigs ==
    [mode : {"", "ranking", "grid"}, sortBy : {""}, order : {""},
     proximityWeight : {UNDEFINED, Wt(70)}, freshnessWeight : {UNDEFINED}]
    \cup
    [mode : {"filter"}, sortBy : validCriteria \cup {"", "name"},
     order : SortOrderValues,
     proximityWeight : {UNDEFINED}, freshnessWeight : {UNDEFINED}]

(* Products for sortByCombinedScore: those of the sorter whose             *)
(* combined_score is a number other than NaN, or missing.                  *)
ScorePool == {p \in SortPool : ~IsNaN(p.combined_score)}

-----------------------------------------------------------------------------
(* Calls *)

Init ==
    /\ fn = "none"
    /\ args = [x |-> 0]
    /\ ret = Ok(0)

Idle == fn = "none"

NormalizeProximityCall ==
    /\ Idle
    /\ \E d \in DistanceValues, r \in RadiusValues, dec \in DecimalsValues :
        /\ fn' = "normalizeProximityScore"
        /\ args' = [distance_km |-> d, max_radius_km |-> r, decimals |-> dec]
        /\ ret' = normalizeProximityScore(d, r, dec)

NormalizeFreshnessCall ==
    /\ Idle
    /\ \E p \in PercentValues, dec \in DecimalsValues :
        /\ fn' = "normalizeFreshnessScore"
        /\ args' = [freshness_percent |-> p, decimals |-> dec]
        /\ ret' = normalizeFreshnessScore(p, dec)

CombinedScoreCall ==
    /\ Idle
    /\ \E a \in ScoreValues, b \in ScoreValues,
          w1 \in WeightValues, w2 \in WeightValues,
          strict \in BOOLEAN, dec \in {2, 3} :
        /\ fn' = "calculateCombinedScore"
        /\ args' = [proximity_score |-> a, freshness_score |-> b,
                    proximity_weight |-> w1, freshness_weight |-> w2,
                    strict |-> strict, decimals |-> dec]
        /\ ret' = calculateCombinedScore(a, b, w1, w2, strict, dec)

ApplyFiltersCall ==
    /\ Idle
    /\ \E items \in SeqsUpTo(FilterPool, MaxLen), filterConfig \in FilterConfigs,
          clock \in ClockValues :
        /\ IsFalsy(filterConfig.currentDate) \/ clock = 10
        /\ fn' = "applyFilters"
        /\ args' = [products |-> CallerArray(items), filterConfig |-> filterConfig,
                    clock |-> clock, again |-> FALSE, first |-> NoStats]
        /\ ret' = applyFilters(CallerArray(items), filterConfig, clock)

(* applyFilters on the list a successful applyFilters call returned, with   *)
(* the same configuration and the same current date.                        *)
ApplyFiltersAgain ==
    /\ fn = "applyFilters"
    /\ ~args.again
    /\ ~ret.threw
    /\ fn' = "applyFilters"
    /\ args' = [products |-> CallerArray(ret.filtered.items),
                filterConfig |-> args.filterConfig,
                clock |-> args.clock, again |-> TRUE, first |-> ret.stats]
    /\ ret' = applyFilters(CallerArray(ret.filtered.items), args.filterConfig,
                           args.clock)

FilterByProximityCall ==
    /\ Idle
    /\ \E items \in SeqsUpTo(FilterPool, MaxLen),
          maxRadiusKm \in {UNDEFINED, 0, 50000, 0 - 5000} :
        /\ fn' = "filterByProximity"
        /\ args' = [products |-> CallerArray(items), maxRadiusKm |-> maxRadiusKm]
        /\ ret' = filterByProximity(CallerArray(items), maxRadiusKm)

CombinedScoresBatchCall ==
    /\ Idle
    /\ \E items \in SeqsUpTo(BatchPool, MaxLen), weights \in BatchWeights,
          strict \in BOOLEAN :
        /\ fn' = "calculateCombinedScoresBatch"
        /\ args' = [products |-> CallerArray(items),
                    proximity_weight |-> weights[1],
                    freshness_weight |-> weights[2], strict |-> strict]
        /\ ret' = calculateCombinedScoresBatch(CallerArray(items), weights[1],
                                               weights[2], strict)

(* The order in which sort leaves elements that an Invalid Date keeps from  *)
(* being compared is the engine's choice: a list takes an Invalid Date only *)
(* as its single product.                                                   *)
SortProductsCall ==
    /\ Idle
    /\ \E items \in SeqsUpTo(SortPool, MaxLen), sortBy \in SortByValues,
          order \in SortOrderValues :
        /\ \A i \in DOMAIN items : IsNaN(items[i].expiration_date) => Len(items) = 1
        /\ fn' = "sortProducts"
        /\ args' = [products |-> CallerArray(items), sortBy |-> sortBy,
                    order |-> order]
        /\ ret' = sortProducts(CallerArray(items), sortBy, order)

CreateWeightConfigCall ==
    /\ Idle
    /\ \E proximityWeight \in ConfigWeightValues,
          freshnessWeight \in ConfigWeightValues,
          strict \in BOOLEAN, normalize \in BOOLEAN :
        /\ fn' = "createWeightConfig"
        /\ args' = [proximityWeight |-> proximityWeight,
                    freshnessWeight |-> freshnessWeight,
                    strict |-> strict, normalize |-> normalize]
        /\ ret' = createWeightConfig(proximityWeight, freshnessWeight, strict,
                                     normalize)

ScoreAndRankCall ==
    /\ Idle
    /\ \E items \in SeqsUpTo(RankPool, MaxLen), buyer \in Buyers,
          options \in RankOptions :
        /\ fn' = "scoreAndRankProducts"
        /\ args' = [products |-> CallerArray(items), buyer |-> buyer,
                    options |-> options, again |-> FALSE]
        /\ ret' = scoreAndRankProducts(CallerArray(items), buyer, options)

(* scoreAndRankProducts on the list a successful scoreAndRankProducts call  *)
(* returned, for the same buyer and with the same options.                  *)
ScoreAndRankAgain ==
    /\ fn = "scoreAndRankProducts"
    /\ ~args.again
    /\ ~ret.threw
    /\ fn' = "scoreAndRankProducts"
    /\ args' = [products |-> CallerArray(ret.value.items), buyer |-> args.buyer,
                options |-> args.options, again |-> TRUE]
    /\ ret' = scoreAndRankProducts(CallerArray(ret.value.items), args.buyer,
                                   args.options)

ChendaAlgorithmCall ==
    /\ Idle
    /\ \E items \in SeqsUpTo(ChendaPool, MaxLen), buyer \in ChendaBuyers,
          config \in RankingConfigs \cup SortingConfigs :
        /\ buyer.hasCoordinates \/ (Len(items) = 1 /\ config.mode = "")
        /\ fn' = "chendaAlgorithm"
        /\ args' = [products |-> CallerArray(items), buyer |-> buyer,
                    config |-> config, clock |-> 10]
        /\ ret' = chendaAlgorithm(buyer, CallerArray(items), config, 10)

DisplayProductsCall ==
    /\ Idle
    /\ \E items \in SeqsUpTo(DisplayPool, MaxLen), buyer \in DisplayBuyers,
          config \in DisplayConfigs :
        /\ buyer.hasPreferences \/ Len(items) = 1
        /\ fn' = "displayProducts"
        /\ args' = [products |-> CallerArray(items), buyer |-> buyer,
                    config |-> config, clock |-> 10]
        /\ ret' = displayProducts(CallerArray(items), buyer, config, 10)

SortByCombinedScoreCall ==
    /\ Idle
    /\ \E items \in SeqsUpTo(ScorePool, MaxLen), descending \in BOOLEAN :
        /\ fn' = "sortByCombinedScore"
        /\ args' = [products |-> CallerArray(items), descending |-> descending]
        /\ ret' = sortByCombinedScore(CallerArray(items), descending)

Next ==
    \/ ChendaAlgorithmCall
    \/ SortByCombinedScoreCall
    \/ DisplayProductsCall
    \/ ScoreAndRankAgain
    \/ CreateWeightConfigCall
    \/ SortProductsCall
    \/ CombinedScoresBatchCall
    \/ ScoreAndRankCall
    \/ FilterByProximityCall
    \/ ApplyFiltersCall
    \/ ApplyFiltersAgain
    \/ NormalizeProximityCall
    \/ NormalizeFreshnessCall
    \/ CombinedScoreCall

Spec == Init /\ [][Next]_vars

-----------------------------------------------------------------------------
(* Properties of the normalizers *)

InRange(x) == x >= 0 /\ x <= Num(100)

TwoDecimals(x) == x % 10 = 0

ProximityCallValid ==
    /\ fn = "normalizeProximityScore"
    /\ args.max_radius_km > 0
    /\ args.distance_km >= 0

\* C6: for every max radius R > 0, normalizeProximityScore(0, R) is 100,
\* normalizeProximityScore(R, R) is 0 and normalizeProximityScore(x, R) is 0
\* for every x >= R; the score is never negative.
C6_ProximityBoundaries ==
    ProximityCallValid =>
        /\ ~ret.threw
        /\ ret.value >= 0
        /\ (args.distance_km = 0 => ret.value = Num(100))
        /\ (args.distance_km >= args.max_radius_km => ret.value = 0)

C6_Witness ==
    /\ ProximityCallValid
    /\ args.distance_km > args.max_radius_km
    /\ ret.value = 0

\* C7: for a fixed max radius R > 0, normalizeProximityScore is non-increasing
\* in the distance: every distance d1 with 0 <= d1 <= d scores at least what d
\* scores, across the clamp at d >= R and after rounding to any number of
\* decimals.
C7_ProximityMonotone ==
    ProximityCallValid =>
        \A d1 \in DistanceValues :
            (d1 >= 0 /\ d1 <= args.distance_km) =>
                normalizeProximityScore(d1, args.max_radius_km,
                                        args.decimals).value >= ret.value

C7_Witness ==
    /\ ProximityCallValid
    /\ args.distance_km > 0
    /\ args.distance_km < args.max_radius_km
    /\ ret.value > 0
    /\ ret.value < Num(100)
    /\ \E d1 \in DistanceValues :
          /\ d1 >= 0
          /\ d1 < args.distance_km
          /\ normalizeProximityScore(d1, args.max_radius_km,
                                     args.decimals).value > ret.value

FreshnessCallDefault ==
    /\ fn = "normalizeFreshnessScore"
    /\ InRange(args.freshness_percent)
    /\ args.decimals = 2

\* C8 (as stated): normalizeFreshnessScore(p) = p for every p in [0,100] with
\* the default decimals.
C8_FreshnessIdentity ==
    FreshnessCallDefault => (~ret.threw /\ ret.value = args.freshness_percent)

\* C8 (amended): with the default decimals normalizeFreshnessScore(p) is p
\* rounded to two decimals: a multiple of 0.01 within 0.005 of p, and p itself
\* whenever p has at most two decimals.
C8_FreshnessRounded ==
    FreshnessCallDefault =>
        /\ ~ret.threw
        /\ TwoDecimals(ret.value)
        /\ Abs(ret.value - args.freshness_percent) <= 5
        /\ (TwoDecimals(args.freshness_percent)
              => ret.value = args.freshness_percent)

C8_Witness ==
    /\ FreshnessCallDefault
    /\ ~TwoDecimals(args.freshness_percent)
    /\ ~ret.threw
    /\ ret.value > args.freshness_percent

-----------------------------------------------------------------------------
(* Properties of the combined score *)

CombinedCallDefault ==
    /\ fn = "calculateCombinedScore"
    /\ args.decimals = 2
    /\ InRange(args.proximity_score)
    /\ InRange(args.freshness_score)
    /\ args.proximity_weight + args.freshness_weight = Wt(100)

\* C9 (as stated): for all scores a, b in [0,100] and weights summing to 100,
\* min(a,b) <= calculateCombinedScore(a, b, w1, w2) <= max(a,b).
C9_Convex ==
    CombinedCallDefault =>
        /\ ~ret.threw
        /\ Min(args.proximity_score, args.freshness_score) <= ret.value
        /\ ret.value <= Max(args.proximity_score, args.freshness_score)

\* C9 (amended): for weights summing to 100 the combined score lies between
\* min(a,b) and max(a,b) whenever a and b have at most two decimals, and for
\* any a, b in [0,100] it is a multiple of 0.01 within 0.005 of that interval.
C9_ConvexRounded ==
    CombinedCallDefault =>
        /\ ~ret.threw
        /\ TwoDecimals(ret.value)
        /\ Min(args.proximity_score, args.freshness_score) - 5 <= ret.value
        /\ ret.value <= Max(args.proximity_score, args.freshness_score) + 5
        /\ (TwoDecimals(args.proximity_score) /\ TwoDecimals(args.freshness_score)
              => /\ Min(args.proximity_score, args.freshness_score) <= ret.value
                 /\ ret.value <= Max(args.proximity_score, args.freshness_score))

C9_Witness ==
    /\ CombinedCallDefault
    /\ ~ret.threw
    /\ args.proximity_weight > 0
    /\ args.freshness_weight > 0
    /\ Min(args.proximity_score, args.freshness_score) < ret.value
    /\ ret.value < Max(args.proximity_score, args.freshness_score)

\* C10 (as stated): calculateCombinedScore(a, b, 100, 0) = a and
\* calculateCombinedScore(a, b, 0, 100) = b for all a, b in [0,100].
C10_FullWeight ==
    CombinedCallDefault =>
        /\ (args.proximity_weight = Wt(100) => ret.value = args.proximity_score)
        /\ (args.freshness_weight = Wt(100) => ret.value = args.freshness_score)

FullWeightOn(score) ==
    /\ ~ret.threw
    /\ TwoDecimals(ret.value)
    /\ Abs(ret.value - score) <= 5
    /\ (TwoDecimals(score) => ret.value = score)

\* C10 (amended): with all weight on one signal the combined score is that
\* signal's score rounded to two decimals: calculateCombinedScore(a, b, 100, 0)
\* is within 0.005 of a, and equals a when a has at most two decimals;
\* likewise calculateCombinedScore(a, b, 0, 100) and b.
C10_FullWeightRounded ==
    CombinedCallDefault =>
        /\ (args.proximity_weight = Wt(100) => FullWeightOn(args.proximity_score))
        /\ (args.freshness_weight = Wt(100) => FullWeightOn(args.freshness_score))

C10_Witness ==
    /\ CombinedCallDefault
    /\ ~ret.threw
    /\ args.proximity_weight = Wt(100)
    /\ args.proximity_score # args.freshness_score
    /\ TwoDecimals(args.proximity_score)
    /\ ret.value = args.proximity_score

-----------------------------------------------------------------------------
(* Properties of the filters *)

FiltersReturned == fn = "applyFilters" /\ ~ret.threw

RemovedTotal(stats) ==
    stats.removedExpired + stats.removedProximity + stats.removedFreshness

\* C2: after every successful applyFilters call, whatever stages are enabled,
\* stats.initial = stats.final + removedExpired + removedProximity +
\* removedFreshness, stats.initial is the input length and stats.final is the
\* length of the returned filtered list.
C2_StatsConservation ==
    FiltersReturned =>
        /\ ret.stats.initial = ret.stats.final + RemovedTotal(ret.stats)
        /\ ret.stats.initial = Len(args.products.items)
        /\ ret.stats.final = Len(ret.filtered.items)

C2_Witness ==
    /\ FiltersReturned
    /\ ret.stats.removedExpired > 0
    /\ ret.stats.removedProximity > 0
    /\ ret.stats.removedFreshness > 0

(* The configuration in force during the call in hand *)
ConfigInForce == FilterDefaults(args.filterConfig, args.clock)

PassesExpiration(product) ==
    ConfigInForce.filterExpired
        => ~isExpired(product.expiration_date, ConfigInForce.currentDate)

PassesFreshness(product) ==
    ConfigInForce.minFreshnessPercent # NULL
        => product.freshness_percent >= ConfigInForce.minFreshnessPercent

\* C3: in the radius stage a product is kept if and only if its distance_km
\* is at most maxRadiusKm.  filterByProximity returns exactly the products
\* with distance_km <= maxRadiusKm, in order; applyFilters with a radius in
\* force returns exactly the products that pass the other enabled stages and
\* have distance_km <= maxRadiusKm, and removedProximity counts the products
\* that reached the radius stage with distance_km > maxRadiusKm.
C3_RadiusInclusive ==
    /\ (fn = "filterByProximity" /\ ~ret.threw) =>
          ret.value.items =
              SelectSeq(args.products.items,
                        LAMBDA p : p.distance_km <= args.maxRadiusKm)
    /\ (FiltersReturned /\ ConfigInForce.maxRadiusKm # NULL) =>
          /\ ret.filtered.items =
                SelectSeq(args.products.items,
                          LAMBDA p : /\ PassesExpiration(p)
                                     /\ p.distance_km <= ConfigInForce.maxRadiusKm
                                     /\ PassesFreshness(p))
          /\ ret.stats.removedProximity =
                Len(SelectSeq(args.products.items,
                              LAMBDA p : /\ PassesExpiration(p)
                                         /\ p.distance_km > ConfigInForce.maxRadiusKm))

C3_Witness ==
    /\ FiltersReturned
    /\ ConfigInForce.maxRadiusKm # NULL
    /\ ret.stats.removedProximity = 1
    /\ \E i \in DOMAIN ret.filtered.items :
          ret.filtered.items[i].distance_km = ConfigInForce.maxRadiusKm
    /\ \E i \in DOMAIN args.products.items :
          args.products.items[i].distance_km > ConfigInForce.maxRadiusKm

(* sub is obtained from seq by deleting elements *)
RECURSIVE IsSubsequence(_, _)
IsSubsequence(sub, seq) ==
    IF sub = <<>> THEN TRUE
    ELSE IF seq = <<>> THEN FALSE
    ELSE IF Head(sub) = Head(seq) THEN IsSubsequence(Tail(sub), Tail(seq))
    ELSE IsSubsequence(sub, Tail(seq))

\* C4: applyFilters never mutates its input: after any call, successful or
\* failing, the caller's array holds the same elements in the same order with
\* the same fields; the filtered list returned is a separate array and an
\* order-preserving subsequence of the input.
C4_InputUntouched ==
    fn = "applyFilters" =>
        /\ ret.products = args.products
        /\ ~ret.threw =>
              /\ ret.filtered.isNew
              /\ IsSubsequence(ret.filtered.items, args.products.items)

C4_Witness ==
    /\ FiltersReturned
    /\ Len(ret.filtered.items) >= 2
    /\ Len(ret.filtered.items) < Len(args.products.items)
    /\ ret.products = args.products

\* C5: applyFilters applied, with the same configuration and the same current
\* date, to the filtered list a first call returned gives back the same list
\* in the same order, with removedExpired, removedProximity and
\* removedFreshness all 0.
C5_Idempotent ==
    (fn = "applyFilters" /\ args.again) =>
        /\ ~ret.threw
        /\ ret.filtered.items = args.products.items
        /\ ret.stats.removedExpired = 0
        /\ ret.stats.removedProximity = 0
        /\ ret.stats.removedFreshness = 0

C5_Witness ==
    /\ fn = "applyFilters"
    /\ args.again
    /\ RemovedTotal(args.first) >= 2
    /\ Len(ret.filtered.items) >= 1
    /\ ~ret.threw

-----------------------------------------------------------------------------
(* Properties of ranking mode *)

RankingReturned ==
    /\ \/ fn = "scoreAndRankProducts"
       \/ fn = "chendaAlgorithm" /\ FinalConfig(args.config).mode = "ranking"
    /\ ~ret.threw

(* The list a ranking call returned *)
Ranked == IF fn = "chendaAlgorithm" THEN ret.value.products.items ELSE ret.value.items

\* C1: whenever ranking mode succeeds (scoreAndRankProducts, or chendaAlgorithm
\* with mode 'ranking'), the returned list is non-increasing in combined_score:
\* each product's combined_score is a number at least as large as that of the
\* product after it.
C1_RankingSorted ==
    RankingReturned =>
        /\ \A i \in DOMAIN Ranked :
              IsNumber(Ranked[i].combined_score) /\ ~IsNaN(Ranked[i].combined_score)
        /\ \A i \in 1..(Len(Ranked) - 1) :
              Ranked[i].combined_score >= Ranked[i + 1].combined_score

C1_Witness ==
    /\ RankingReturned
    /\ fn = "chendaAlgorithm"
    /\ Len(Ranked) = 3
    /\ Ranked[1].combined_score > Ranked[2].combined_score
    /\ Ranked[2].combined_score > Ranked[3].combined_score
    /\ Ranked[1].id = args.products.items[3].id
    /\ Ranked[3].id = args.products.items[1].id

-----------------------------------------------------------------------------
(* Properties of strict validation *)

(* A calculateCombinedScore call whose scores and weights are all in range *)
CombinedCallInRange ==
    /\ fn = "calculateCombinedScore"
    /\ validateScore(args.proximity_score) = ""
    /\ validateScore(args.freshness_score) = ""
    /\ validateWeight(args.proximity_weight) = ""
    /\ validateWeight(args.freshness_weight) = ""

\* C11: for in-range scores and weights, a strict calculateCombinedScore call
\* fails if and only if proximity_weight + freshness_weight is not 100, and the
\* call with the same arguments and strict = false succeeds with a number.
C11_StrictValidation ==
    CombinedCallInRange =>
        LET sum == args.proximity_weight + args.freshness_weight
            lenient == calculateCombinedScore(args.proximity_score,
                           args.freshness_score, args.proximity_weight,
                           args.freshness_weight, FALSE, args.decimals)
        IN  /\ args.strict => (ret.threw <=> sum # Wt(100))
            /\ ~args.strict => ret = lenient
            /\ ~lenient.threw
            /\ IsNumber(lenient.value) /\ ~IsNaN(lenient.value)

C11_Witness ==
    /\ CombinedCallInRange
    /\ args.strict
    /\ args.proximity_weight = Wt(60)
    /\ args.freshness_weight = Wt(50)
    /\ ret.threw
    /\ ret.msg = "Weights must sum to 100 in strict mode"

-----------------------------------------------------------------------------
(* Properties of ranking requests *)

(* A ranking request: scoreAndRankProducts with a buyer that has preferences, *)
(* or chendaAlgorithm in ranking mode with a buyer that has coordinates.      *)
RankingRequest ==
    \/ fn = "scoreAndRankProducts" /\ args.buyer.hasPreferences
    \/ /\ fn = "chendaAlgorithm"
       /\ args.buyer.hasCoordinates
       /\ FinalConfig(args.config).mode = "ranking"

(* The two weights the request ranks with, out of 100, in hundredths *)
RequestWeights ==
    IF fn = "chendaAlgorithm"
      THEN <<Times100(FinalConfig(args.config).weights.proximity_weight),
             Times100(FinalConfig(args.config).weights.freshness_weight)>>
      ELSE <<DefaultTo(args.options.proximityWeight, Wt(50)),
             DefaultTo(args.options.freshnessWeight, Wt(50))>>

\* C12: a ranking request (scoreAndRankProducts, chendaAlgorithm in ranking
\* mode) whose weights do not sum to 100 fails with an error for every list
\* of candidates, the empty list and a list that the filters empty included.
C12_BadWeightsRejected ==
    (RankingRequest /\ RequestWeights[1] + RequestWeights[2] # Wt(100))
        => ret.threw

(* scoreAndRankProducts returning for weights 60 and 50 on an empty list *)
C12_Witness ==
    /\ fn = "scoreAndRankProducts"
    /\ RankingRequest
    /\ RequestWeights = <<Wt(60), Wt(50)>>
    /\ Len(args.products.items) = 0
    /\ ~ret.threw
    /\ ret.value.items = <<>>

-----------------------------------------------------------------------------
(* Properties of the batch combiner *)

(* The product does not carry the score as a number *)
LacksScore(product) ==
    \/ ~IsNumber(product.proximity_score) \/ IsNaN(product.proximity_score)
    \/ ~IsNumber(product.freshness_score) \/ IsNaN(product.freshness_score)

\* C13: calculateCombinedScoresBatch fails whenever a product of the list
\* lacks a numeric proximity_score or freshness_score; it returns no list,
\* so no product that lacks a score is returned with a combined_score.
C13_MissingScoreFails ==
    (/\ fn = "calculateCombinedScoresBatch"
     /\ \E i \in DOMAIN args.products.items : LacksScore(args.products.items[i]))
        => ret.threw

C13_Witness ==
    /\ fn = "calculateCombinedScoresBatch"
    /\ args.proximity_weight = Wt(70) /\ args.freshness_weight = Wt(30)
    /\ Len(args.products.items) = 3
    /\ ~LacksScore(args.products.items[1])
    /\ ~IsNumber(args.products.items[2].freshness_score)
    /\ ~LacksScore(args.products.items[3])
    /\ ret.threw
    /\ ret.msg = "product.freshness_score must be a number"

-----------------------------------------------------------------------------
(* Properties of the ranking radius *)

(* scoreAndRankProducts on a non-empty list of products without scores, for *)
(* a buyer whose preferences carry neither max_radius nor max_radius_km.    *)
RankingWithoutRadius ==
    /\ fn = "scoreAndRankProducts"
    /\ args.buyer.hasPreferences
    /\ args.buyer.max_radius = UNDEFINED
    /\ args.buyer.max_radius_km = UNDEFINED
    /\ Len(args.products.items) > 0
    /\ \A i \in DOMAIN args.products.items :
          /\ args.products.items[i].proximity_score = UNDEFINED
          /\ args.products.items[i].freshness_score = UNDEFINED

\* C14: ranking mode without a configured max radius fails for every
\* non-empty list of unscored products: no proximity score is computed
\* against an assumed radius.
C14_NoRadiusFails == RankingWithoutRadius => ret.threw

(* A product 25 km away ranked with proximity score 50, that of a 50 km     *)
(* radius, for a buyer that configured none.                                *)
C14_Witness ==
    /\ RankingWithoutRadius
    /\ ~ret.threw
    /\ \E i \in DOMAIN ret.value.items :
          /\ ret.value.items[i].distance_km = Num(25)
          /\ ret.value.items[i].proximity_score = Num(50)

-----------------------------------------------------------------------------
(* Properties of the sorter *)

(* The product carries a valid value of the property sorted on: a number   *)
(* that is not NaN, or a valid date.                                        *)
HasValidValue(p, sortBy) ==
    /\ sortBy \in validCriteria
    /\ IsNumber(SortValue(p, sortBy))
    /\ ~IsNaN(SortValue(p, sortBy))

(* A sortProducts call on a non-empty list whose products all carry a valid *)
(* value of the property sorted on.                                         *)
SortableCall ==
    /\ fn = "sortProducts"
    /\ Len(args.products.items) > 0
    /\ \A i \in DOMAIN args.products.items :
          HasValidValue(args.products.items[i], args.sortBy)

(* Each product occurs in one sequence as often as in the other *)
IsPermutation(s, t) ==
    /\ Len(s) = Len(t)
    /\ \A x \in {s[i] : i \in DOMAIN s} \cup {t[i] : i \in DOMAIN t} :
          Cardinality({i \in DOMAIN s : s[i] = x})
              = Cardinality({i \in DOMAIN t : t[i] = x})

NonDecreasing(items, sortBy) ==
    \A i \in 1..(Len(items) - 1) :
        SortValue(items[i], sortBy) <= SortValue(items[i + 1], sortBy)

NonIncreasing(items, sortBy) ==
    \A i \in 1..(Len(items) - 1) :
        SortValue(items[i], sortBy) >= SortValue(items[i + 1], sortBy)

\* C15: on a non-empty list whose products all carry a valid value of the
\* sorted-on field, sortProducts returns a permutation of the input that is
\* non-decreasing in the field for order 'asc' and non-increasing for 'desc';
\* with no order given it is ascending for 'price' and 'distance' and
\* descending for 'freshness'.
C15_SortOrder ==
    SortableCall =>
        /\ ~ret.threw
        /\ IsPermutation(ret.value.items, args.products.items)
        /\ args.order = "asc" => NonDecreasing(ret.value.items, args.sortBy)
        /\ args.order = "desc" => NonIncreasing(ret.value.items, args.sortBy)
        /\ (args.order = "" /\ args.sortBy \in {"price", "distance"})
              => NonDecreasing(ret.value.items, args.sortBy)
        /\ (args.order = "" /\ args.sortBy = "freshness")
              => NonIncreasing(ret.value.items, args.sortBy)

(* Three products given in ascending freshness, sorted by freshness with no *)
(* order, come back in descending freshness.                                *)
C15_Witness ==
    /\ SortableCall
    /\ args.sortBy = "freshness"
    /\ args.order = ""
    /\ Len(args.products.items) = 3
    /\ args.products.items[1].freshness_percent
          < args.products.items[2].freshness_percent
    /\ args.products.items[2].freshness_percent
          < args.products.items[3].freshness_percent
    /\ ~ret.threw
    /\ ret.value.items[1] = args.products.items[3]
    /\ ret.value.items[3] = args.products.items[1]

(* A filter+sort call that returned: sortProducts, or chendaAlgorithm in    *)
(* 'filter' mode.                                                           *)
SortReturned ==
    /\ \/ fn = "sortProducts"
       \/ fn = "chendaAlgorithm" /\ FinalConfig(args.config).mode = "filter"
    /\ ~ret.threw

(* The criterion the call sorts by *)
SortField ==
    IF fn = "chendaAlgorithm" THEN FinalConfig(args.config).sort_by ELSE args.sortBy

(* The list the call returned, the survivors in sorted order *)
Sorted == IF fn = "chendaAlgorithm" THEN ret.value.products.items ELSE ret.value.items

\* C16: filter+sort mode returns a result only if the sort field is one of
\* the recognized criteria and every survivor carries a valid value of it;
\* otherwise the call fails, whatever the list, the empty list included.
C16_SortFailsUnlessValid ==
    SortReturned =>
        /\ SortField \in validCriteria
        /\ \A i \in DOMAIN Sorted : HasValidValue(Sorted[i], SortField)

(* sortProducts returning an empty list for a criterion it does not know *)
C16_Witness ==
    /\ SortReturned
    /\ fn = "sortProducts"
    /\ args.sortBy = "name"
    /\ Len(args.products.items) = 0
    /\ ret.value.items = <<>>

(* sortProducts returning a product whose expiration_date is an Invalid Date *)
InvalidDateSorted ==
    /\ SortReturned
    /\ fn = "sortProducts"
    /\ args.sortBy = "expiration"
    /\ Len(ret.value.items) = 1
    /\ IsNaN(ret.value.items[1].expiration_date)

(* chendaAlgorithm in 'filter' mode returning for a criterion sortProducts  *)
(* does not know, when the filters leave no product.                        *)
UnknownCriterionAfterFilters ==
    /\ SortReturned
    /\ fn = "chendaAlgorithm"
    /\ SortField = "name"
    /\ Len(args.products.items) > 0
    /\ Len(Sorted) = 0

-----------------------------------------------------------------------------
(* Properties of the pipeline's configuration *)

ChendaReturned == fn = "chendaAlgorithm" /\ ~ret.threw

(* Every returned product lies within the radius *)
WithinRadius(max_radius) ==
    \A i \in DOMAIN ret.value.products.items :
        /\ IsNumber(ret.value.products.items[i].distance_km)
        /\ ret.value.products.items[i].distance_km <= max_radius

\* C17: for every max_radius that createConfig accepts, any number that is
\* not negative, and in both modes, every product that chendaAlgorithm
\* returns has distance_km <= max_radius.
C17_WithinMaxRadius ==
    (ChendaReturned /\ FinalConfig(args.config).max_radius >= 0)
        => WithinRadius(FinalConfig(args.config).max_radius)

(* With max_radius 0 a product 5 km away is returned *)
C17_Witness ==
    /\ ChendaReturned
    /\ args.config.max_radius = 0
    /\ \E i \in DOMAIN ret.value.products.items :
          ret.value.products.items[i].distance_km = Num(5)

(* The radius is respected when it is positive *)
PositiveRadiusRespected ==
    (ChendaReturned /\ FinalConfig(args.config).max_radius > 0)
        => WithinRadius(FinalConfig(args.config).max_radius)

(* The preset that the call's config names *)
NamedPreset == getWeightPresets[args.config.weight_preset]

\* C18: when config.weight_preset names a preset of getWeightPresets,
\* chendaAlgorithm ranks with that preset's weights, whatever config.weights
\* gives: metadata.config.weights is the preset's weights over 100, and each
\* returned combined_score is the combination under the preset's weights.
C18_PresetWeights ==
    (/\ ChendaReturned
     /\ FinalConfig(args.config).mode = "ranking"
     /\ args.config.weight_preset \in DOMAIN getWeightPresets)
        => /\ ret.value.metadata.config.weights
                = [proximity_weight |-> Over100(NamedPreset.proximityWeight),
                   freshness_weight |-> Over100(NamedPreset.freshnessWeight)]
           /\ \A i \in DOMAIN ret.value.products.items :
                 LET product == ret.value.products.items[i]
                 IN  Ok(product.combined_score)
                       = calculateCombinedScore(product.proximity_score,
                             product.freshness_score, NamedPreset.proximityWeight,
                             NamedPreset.freshnessWeight, TRUE, 2)

(* Weights 0.7 and 0.3 given together with the preset 'quality': two        *)
(* products are ranked with 0.2 and 0.8.                                    *)
C18_Witness ==
    /\ ChendaReturned
    /\ args.config.mode = "ranking"
    /\ args.config.weight_preset = "quality"
    /\ args.config.weights.given
    /\ args.config.weights.proximity_weight = 700
    /\ Len(ret.value.products.items) >= 2
    /\ ret.value.metadata.config.weights.freshness_weight = 800

(* chendaAlgorithm(buyer, products): the config gives nothing *)
NoConfig ==
    [max_radius |-> UNDEFINED, weights |-> NoWeights,
     min_freshness_score |-> UNDEFINED, mode |-> "", sort_by |-> "",
     sort_order |-> "", weight_preset |-> ""]

DefaultCallReturned == ChendaReturned /\ args.config = NoConfig

(* The call used the radius, the weights (out of 100) and ranking mode:     *)
(* what metadata.config reports, and what the returned products show.       *)
UsedDefaults(max_radius, proximityWeight, freshnessWeight) ==
    /\ ret.value.metadata.config.max_radius = max_radius
    /\ ret.value.metadata.config.mode = "ranking"
    /\ Times100(ret.value.metadata.config.weights.proximity_weight) = proximityWeight
    /\ Times100(ret.value.metadata.config.weights.freshness_weight) = freshnessWeight
    /\ WithinRadius(max_radius)
    /\ \A i \in DOMAIN ret.value.products.items :
          LET product == ret.value.products.items[i]
          IN  /\ Ok(product.proximity_score)
                    = normalizeProximityScore(product.distance_km, max_radius, 2)
              /\ Ok(product.combined_score)
                    = calculateCombinedScore(product.proximity_score,
                          product.freshness_score, proximityWeight,
                          freshnessWeight, TRUE, 2)
    /\ \A i \in 1..(Len(ret.value.products.items) - 1) :
          ret.value.products.items[i].combined_score
              >= ret.value.products.items[i + 1].combined_score

-----------------------------------------------------------------------------
(* Properties of the scores of ranked products *)

(* A number within [0,100] *)
IsScore(x) == IsNumber(x) /\ ~IsNaN(x) /\ InRange(x)

\* C20: every product that ranking mode returns (scoreAndRankProducts, or
\* chendaAlgorithm in ranking mode) carries a numeric proximity_score,
\* freshness_score and combined_score, each within [0,100], whether the call
\* computed the scores or the input product already carried them.
C20_ScoresInRange ==
    RankingReturned =>
        \A i \in DOMAIN Ranked :
            /\ IsScore(Ranked[i].proximity_score)
            /\ IsScore(Ranked[i].freshness_score)
            /\ IsScore(Ranked[i].combined_score)

(* A list with a product that arrived with its scores and one that did not, *)
(* both returned.                                                           *)
C20_Witness ==
    /\ RankingReturned
    /\ fn = "scoreAndRankProducts"
    /\ Len(Ranked) = 2
    /\ \E i \in DOMAIN args.products.items :
          IsNumber(args.products.items[i].proximity_score)
    /\ \E i \in DOMAIN args.products.items :
          /\ ~IsNumber(args.products.items[i].proximity_score)
          /\ args.products.items[i].distance_km > 0

-----------------------------------------------------------------------------
(* Properties of the order of the filter stages *)

(* The product fails the check of a stage that the configuration enables *)
FailsExpiration(product) ==
    /\ ConfigInForce.filterExpired
    /\ isExpired(product.expiration_date, ConfigInForce.currentDate)

FailsRadius(product) ==
    /\ ConfigInForce.maxRadiusKm # NULL
    /\ product.distance_km > ConfigInForce.maxRadiusKm

FailsFreshness(product) ==
    /\ ConfigInForce.minFreshnessPercent # NULL
    /\ product.freshness_percent < ConfigInForce.minFreshnessPercent

(* How many products of the input satisfy Test *)
CountOf(Test(_)) ==
    Cardinality({i \in DOMAIN args.products.items : Test(args.products.items[i])})

\* C21: applyFilters runs expiration, then radius, then freshness, each on
\* the survivors of the stage before, so a product that fails several checks
\* is counted once, by the first enabled stage that rejects it.
C21_FirstStageCounts ==
    FiltersReturned =>
        /\ ret.stats.removedExpired = CountOf(FailsExpiration)
        /\ ret.stats.removedProximity
              = CountOf(LAMBDA p : ~FailsExpiration(p) /\ FailsRadius(p))
        /\ ret.stats.removedFreshness
              = CountOf(LAMBDA p : /\ ~FailsExpiration(p) /\ ~FailsRadius(p)
                                  /\ FailsFreshness(p))
        /\ ret.stats.afterExpiration = ret.stats.initial - ret.stats.removedExpired
        /\ ret.stats.afterProximity
              = ret.stats.afterExpiration - ret.stats.removedProximity
        /\ ret.stats.afterFreshness
              = ret.stats.afterProximity - ret.stats.removedFreshness

(* With all three stages enabled, a product that fails all three checks is  *)
(* counted as expired only, next to one removed for its freshness.          *)
C21_Witness ==
    /\ FiltersReturned
    /\ ConfigInForce.filterExpired
    /\ CountOf(LAMBDA p : FailsExpiration(p) /\ FailsRadius(p) /\ FailsFreshness(p)) = 1
    /\ ret.stats.removedExpired = 1
    /\ ret.stats.removedProximity = 0
    /\ ret.stats.removedFreshness = 1

-----------------------------------------------------------------------------
(* Properties of ties and of score reuse in the ranker *)

RankerReturned == fn = "scoreAndRankProducts" /\ ~ret.threw

(* The product without its three scores *)
StripScores(p) ==
    [p EXCEPT !.proximity_score = UNDEFINED, !.freshness_score = UNDEFINED,
              !.combined_score = UNDEFINED]

(* The combined_score that the call gave to a product of its input *)
ScoreGiven(p) ==
    LET k == CHOOSE k \in DOMAIN ret.value.items :
                 StripScores(ret.value.items[k]) = StripScores(p)
    IN  ret.value.items[k].combined_score

(* The products of the list, in the list's order, without their scores *)
Stripped(items) == [i \in DOMAIN items |-> StripScores(items[i])]

RankingRadius ==
    IF ~IsFalsy(args.buyer.max_radius) THEN args.buyer.max_radius
    ELSE IF ~IsFalsy(args.buyer.max_radius_km) THEN args.buyer.max_radius_km
    ELSE Num(50)

(* The returned product's scores are those of its raw metrics *)
FromRawMetrics(product) ==
    /\ Ok(product.proximity_score)
          = normalizeProximityScore(product.distance_km, RankingRadius, 2)
    /\ Ok(product.freshness_score)
          = normalizeFreshnessScore(product.freshness_percent, 2)

(* The product of the input that the returned product came from *)
InputOf(product) ==
    CHOOSE p \in {args.products.items[i] : i \in DOMAIN args.products.items} :
        StripScores(p) = StripScores(product)

CameWithScores(p) == IsNumber(p.proximity_score) /\ IsNumber(p.freshness_score)

\* C23: for every product that scoreAndRankProducts returns, with max radius
\* R, proximity_score = normalizeProximityScore(distance_km, R) and
\* freshness_score = normalizeFreshnessScore(freshness_percent), also when
\* the input product already carried the two scores.
C23_ScoresFromMetrics ==
    RankerReturned =>
        \A k \in DOMAIN ret.value.items : FromRawMetrics(ret.value.items[k])

\* C23, as the code has it: a returned product whose input did not carry
\* both scores as numbers has the scores of its raw metrics; one whose input
\* carried both keeps them as they came.
C23_ScoresFromMetricsUnlessPresent ==
    RankerReturned =>
        \A k \in DOMAIN ret.value.items :
            LET product == ret.value.items[k]
            IN  IF CameWithScores(InputOf(product))
                  THEN /\ product.proximity_score = InputOf(product).proximity_score
                       /\ product.freshness_score = InputOf(product).freshness_score
                  ELSE FromRawMetrics(product)

(* With a radius of 10 km a product 10 km away that came with proximity     *)
(* score 80 is returned with 80, next to a product scored in the call.      *)
C23_Witness ==
    /\ RankerReturned
    /\ RankingRadius = Num(10)
    /\ \E k \in DOMAIN ret.value.items :
          /\ CameWithScores(InputOf(ret.value.items[k]))
          /\ ret.value.items[k].distance_km = Num(10)
          /\ ret.value.items[k].proximity_score = Num(80)
    /\ \E k \in DOMAIN ret.value.items :
          /\ ~CameWithScores(InputOf(ret.value.items[k]))
          /\ ret.value.items[k].proximity_score > 0

-----------------------------------------------------------------------------
(* Properties of the pipeline's result *)

(* The configuration of the pipeline's filter stage *)
ChendaFilterConfig ==
    FilterDefaults([filterExpired |-> "false",
                    maxRadiusKm |-> FinalConfig(args.config).max_radius,
                    minFreshnessPercent |-> FinalConfig(args.config).min_freshness_score,
                    currentDate |-> UNDEFINED], args.clock)

(* The enriched product passes the stages that the configuration enables *)
Survives(enriched) ==
    /\ ChendaFilterConfig.filterExpired
          => ~isExpired(enriched.expiration_date, ChendaFilterConfig.currentDate)
    /\ ChendaFilterConfig.maxRadiusKm # NULL
          => enriched.distance_km <= ChendaFilterConfig.maxRadiusKm
    /\ ChendaFilterConfig.minFreshnessPercent # NULL
          => enriched.freshness_percent >= ChendaFilterConfig.minFreshnessPercent

(* The filter survivors: the input products, enriched, that pass the stages *)
Survivors ==
    SelectSeq([i \in DOMAIN args.products.items |->
                  Enrich(args.products.items[i], args.clock).value],
              Survives)

\* C24: whenever chendaAlgorithm returns, the returned products are the
\* filter survivors, each once, none dropped and none added, and
\* stats.output_products = stats.filtered_products = stats.filter_stats.final;
\* a product that is invalid for the operation is never skipped.
C24_NoPartialResult ==
    ChendaReturned =>
        LET stats == ret.value.metadata.stats
        IN  /\ IsPermutation(Stripped(ret.value.products.items), Stripped(Survivors))
            /\ stats.output_products = Len(ret.value.products.items)
            /\ stats.output_products = stats.filtered_products
            /\ stats.filtered_products = stats.filter_stats.final
            /\ stats.input_products = Len(args.products.items)
            /\ stats.filter_stats.final
                  = stats.input_products - RemovedTotal(stats.filter_stats)

(* Of three products one is removed by the radius and the two survivors     *)
(* are returned in another order than they came.                            *)
C24_Witness ==
    /\ ChendaReturned
    /\ Len(args.products.items) = 3
    /\ Len(Survivors) = 2
    /\ ret.value.metadata.stats.filter_stats.removedProximity = 1
    /\ Len(ret.value.products.items) = 2
    /\ StripScores(ret.value.products.items[1]) = StripScores(Survivors[2])
    /\ StripScores(ret.value.products.items[2]) = StripScores(Survivors[1])
    /\ Survivors[1] # Survivors[2]

-----------------------------------------------------------------------------
(* Properties of createWeightConfig *)

(* createWeightConfig(p, f, {normalize: true}) with p and f in [0,100] and  *)
(* p + f > 0                                                                *)
NormalizeCall ==
    /\ fn = "createWeightConfig"
    /\ args.normalize
    /\ validateWeight(args.proximityWeight) = ""
    /\ validateWeight(args.freshnessWeight) = ""
    /\ args.proximityWeight + args.freshnessWeight > 0

\* C25: createWeightConfig(p, f, {normalize: true}) with p, f in [0,100] and
\* p + f > 0 returns weights that sum to exactly 100, and returns p and f
\* unchanged when they already sum to 100.
C25_NormalizedSum ==
    NormalizeCall =>
        /\ ~ret.threw
        /\ ret.value.proximityWeight + ret.value.freshnessWeight = Wt(100)
        /\ args.proximityWeight + args.freshnessWeight = Wt(100)
              => /\ ret.value.proximityWeight = args.proximityWeight
                 /\ ret.value.freshnessWeight = args.freshnessWeight

(* 67 and 93 normalize to 41.88 and 58.13, which calculateCombinedScore     *)
(* rejects in strict mode.                                                  *)
C25_Witness ==
    /\ NormalizeCall
    /\ args.proximityWeight = Wt(67)
    /\ args.freshnessWeight = Wt(93)
    /\ ~ret.threw
    /\ ret.value.proximityWeight = 4188
    /\ ret.value.freshnessWeight = 5813
    /\ calculateCombinedScore(Num(50), Num(50), ret.value.proximityWeight,
                              ret.value.freshnessWeight, TRUE, 2).threw

(* The normalized weights are within 0.01 of a sum of 100 *)
NormalizedSumNear ==
    NormalizeCall =>
        /\ ~ret.threw
        /\ Abs(ret.value.proximityWeight + ret.value.freshnessWeight - Wt(100)) <= 1

-----------------------------------------------------------------------------
(* Properties of ranking a ranked list *)

\* C26: scoreAndRankProducts applied, for the same buyer radius and with the
\* same weights, to the list that a successful scoreAndRankProducts call
\* returned succeeds and returns the same products in the same order, with
\* the same proximity_score, freshness_score and combined_score.
C26_RankingIdempotent ==
    (fn = "scoreAndRankProducts" /\ args.again) =>
        /\ ~ret.threw
        /\ ret.value.items = args.products.items

(* The list ranked again holds a product below two that tie *)
C26_Witness ==
    /\ fn = "scoreAndRankProducts"
    /\ args.again
    /\ ~ret.threw
    /\ Len(ret.value.items) = 3
    /\ ret.value.items = args.products.items
    /\ ret.value.items[1].combined_score = ret.value.items[2].combined_score
    /\ ret.value.items[1].id # ret.value.items[2].id
    /\ ret.value.items[2].combined_score > ret.value.items[3].combined_score

\* C27: chendaAlgorithm never removes a product for being expired: whenever
\* it returns, stats.filter_stats.removedExpired is 0 and every input product
\* whose enriched is_expired is true and that passes the radius and the
\* freshness checks is among the returned products.
C27_ExpiredKept ==
    ChendaReturned =>
        /\ ret.value.metadata.stats.filter_stats.removedExpired = 0
        /\ \A i \in DOMAIN args.products.items :
              LET enriched == Enrich(args.products.items[i], args.clock).value
              IN  (enriched.is_expired = "true" /\ Survives(enriched))
                      => \E k \in DOMAIN ret.value.products.items :
                            StripScores(ret.value.products.items[k])
                                = StripScores(enriched)

(* An expired product within the radius is returned beside a fresh one *)
C27_Witness ==
    /\ ChendaReturned
    /\ Len(ret.value.products.items) = 2
    /\ ret.value.metadata.stats.filter_stats.removedExpired = 0
    /\ \E k \in DOMAIN ret.value.products.items :
          /\ ret.value.products.items[k].is_expired = "true"
          /\ ret.value.products.items[k].expiration_date < args.clock
    /\ \E k \in DOMAIN ret.value.products.items :
          ret.value.products.items[k].is_expired = "false"

-----------------------------------------------------------------------------
(* Properties of the pipeline in filter mode *)

(* chendaAlgorithm in filter mode, with no sort_by in the config *)
FilterModeByDefault ==
    /\ fn = "chendaAlgorithm"
    /\ args.config.mode = "filter"
    /\ args.config.sort_by = ""

(* The call passes the buyer check, the enrichment and the filters *)
ReachesDisplay ==
    /\ args.buyer.hasCoordinates
    /\ \A i \in DOMAIN args.products.items :
          ~Enrich(args.products.items[i], args.clock).threw
    /\ ~applyFilters(
            NewArray([i \in DOMAIN args.products.items |->
                         Enrich(args.products.items[i], args.clock).value]),
            Step2FilterConfig(FinalConfig(args.config)), args.clock).threw

(* combined_score is missing, or is not a number *)
Unscored(p) == ~IsNumber(p.combined_score) \/ IsNaN(p.combined_score)

\* C28: chendaAlgorithm in mode 'filter' with sort_by omitted sorts by score:
\* once the buyer check, the enrichment and the filters have passed, it fails
\* if and only if at least one filter survivor lacks a numeric
\* combined_score; so when no input product carries a combined_score it
\* returns a result only if no product survives filtering.
C28_FilterModeNeedsScores ==
    (FilterModeByDefault /\ ReachesDisplay) =>
        /\ ret.threw <=> \E k \in DOMAIN Survivors : Unscored(Survivors[k])
        /\ (/\ ~ret.threw
             /\ \A i \in DOMAIN args.products.items :
                   Unscored(args.products.items[i]))
              => (Survivors = <<>> /\ ret.value.products.items = <<>>)

(* The call fails over one unscored survivor beside a scored one *)
C28_Witness ==
    /\ FilterModeByDefault
    /\ ReachesDisplay
    /\ ret.threw
    /\ Len(Survivors) = 2
    /\ \E k \in DOMAIN Survivors : Unscored(Survivors[k])
    /\ \E k \in DOMAIN Survivors : ~Unscored(Survivors[k])

(* Unscored products are given and none survives: the result is empty *)
EmptyResultForUnscored ==
    /\ FilterModeByDefault
    /\ ~ret.threw
    /\ Len(args.products.items) = 2
    /\ \A i \in DOMAIN args.products.items : Unscored(args.products.items[i])
    /\ ret.value.products.items = <<>>

(* A scored survivor is returned *)
ScoredSurvivorReturned ==
    /\ FilterModeByDefault
    /\ ~ret.threw
    /\ Len(ret.value.products.items) = 1
    /\ ~Unscored(ret.value.products.items[1])

-----------------------------------------------------------------------------
(* Properties of the advertised sort options *)

(* The defaultOrder that getSortOptions gives for the criterion *)
AdvertisedOrder(sortBy) ==
    LET k == CHOOSE k \in DOMAIN getSortOptions : getSortOptions[k].value = sortBy
    IN  getSortOptions[k].defaultOrder

Advertised == {getSortOptions[k].value : k \in DOMAIN getSortOptions}

(* The items are sorted on the criterion in the order *)
InOrder(items, sortBy, order) ==
    IF order = "asc" THEN NonDecreasing(items, sortBy)
    ELSE NonIncreasing(items, sortBy)

(* The criterion displayProducts sorts by in filter mode *)
DisplaySortBy == IF args.config.sortBy = "" THEN "price" ELSE args.config.sortBy

\* C29: for every sort option that getSortOptions advertises, sortProducts
\* called with the option's value and no order returns the list sorted in the
\* option's defaultOrder, and displayProducts in filter mode with that
\* criterion and no order reports the option's defaultOrder as
\* summary.sortOrder and returns the list sorted in it.
C29_AdvertisedDefaultOrder ==
    /\ (/\ fn = "sortProducts"
         /\ args.sortBy \in Advertised
         /\ args.order = ""
         /\ ~ret.threw)
          => InOrder(ret.value.items, args.sortBy, AdvertisedOrder(args.sortBy))
    /\ (/\ fn = "displayProducts"
         /\ args.config.mode = "filter"
         /\ DisplaySortBy \in Advertised
         /\ args.config.order = ""
         /\ ~ret.threw)
          => /\ ret.value.summary.sortOrder = AdvertisedOrder(DisplaySortBy)
             /\ InOrder(ret.value.products.items, DisplaySortBy,
                        AdvertisedOrder(DisplaySortBy))

(* displayProducts sorts three products by expiration with no order given, *)
(* latest first, and reports desc.                                         *)
C29_Witness ==
    /\ fn = "displayProducts"
    /\ args.config.mode = "filter"
    /\ args.config.sortBy = "expiration"
    /\ args.config.order = ""
    /\ ~ret.threw
    /\ Len(ret.value.products.items) = 3
    /\ ret.value.summary.sortOrder = "desc"
    /\ AdvertisedOrder("expiration") = "asc"
    /\ ret.value.products.items[1].expiration_date
          > ret.value.products.items[2].expiration_date
    /\ ret.value.products.items[2].expiration_date
          > ret.value.products.items[3].expiration_date

\* For every advertised option but expiration the default order is the
\* advertised one, in sortProducts and in what displayProducts reports; and
\* displayProducts always reports the order its list is sorted in.
AdvertisedOrderButExpiration ==
    /\ (/\ fn = "sortProducts"
         /\ args.sortBy \in Advertised \ {"expiration"}
         /\ args.order = ""
         /\ ~ret.threw)
          => InOrder(ret.value.items, args.sortBy, AdvertisedOrder(args.sortBy))
    /\ (/\ fn = "displayProducts"
         /\ args.config.mode = "filter"
         /\ DisplaySortBy \in Advertised
         /\ ~ret.threw)
          => /\ InOrder(ret.value.products.items, DisplaySortBy,
                        ret.value.summary.sortOrder)
             /\ (args.config.order = "" /\ DisplaySortBy # "expiration")
                   => ret.value.summary.sortOrder = AdvertisedOrder(DisplaySortBy)

-----------------------------------------------------------------------------
(* Properties of sortByCombinedScore *)

(* Some product of the list has no combined_score of type number *)
SomeScoreMissing(items) ==
    \E i \in DOMAIN items : ~IsNumber(items[i].combined_score)

\* C30: sortByCombinedScore fails whenever a product of its input, of any
\* length from 1 on, lacks a numeric combined_score, and it never returns a
\* list that holds a product without a numeric combined_score.
C30_SortFailsOnMissingScore ==
    fn = "sortByCombinedScore" =>
        /\ (Len(args.products.items) >= 1 /\ SomeScoreMissing(args.products.items))
              => ret.threw
        /\ ~ret.threw => ~SomeScoreMissing(ret.value.items)

(* A list of one product without combined_score is returned *)
C30_Witness ==
    /\ fn = "sortByCombinedScore"
    /\ Len(args.products.items) = 1
    /\ args.products.items[1].combined_score = UNDEFINED
    /\ ~ret.threw
    /\ ret.value.items = args.products.items

\* On a list of two or more products sortByCombinedScore fails exactly when
\* a product lacks a numeric combined_score, and what it returns is sorted.
SortFailsOnMissingScoreAmongSeveral ==
    (fn = "sortByCombinedScore" /\ Len(args.products.items) >= 2) =>
        /\ ret.threw <=> SomeScoreMissing(args.products.items)
        /\ ~ret.threw =>
              /\ IsPermutation(ret.value.items, args.products.items)
              /\ InOrder(ret.value.items, "score",
                         IF args.descending THEN "desc" ELSE "asc")

(* Three scored products are sorted, highest score first *)
ScoredListSorted ==
    /\ fn = "sortByCombinedScore"
    /\ args.descending
    /\ ~ret.threw
    /\ Len(ret.value.items) = 3
    /\ ret.value.items # args.products.items
    /\ ret.value.items[1].combined_score > ret.value.items[3].combined_score

====
